---- MODULE Spec2Model ----
(***************************************************************************)
(* A model of cppnet: the timer set (net::timers::timers), its socket-pair *)
(* interrupt source, and the asynchronous context and context thread that  *)
(* drive them.                                                             *)
(*                                                                         *)
(* Times are in microseconds, the unit of net::timers::duration; the clock *)
(* is observed at whole seconds.  Timer ids are 0-based as in the code;    *)
(* events is a 1-based sequence, so the event of id tid is events[tid+1].  *)
(* The socket pair is the sequence sockets: sockets[1] is the code's       *)
(* sockets[0] (read end), sockets[2] is the code's sockets[1] (write end). *)
(***************************************************************************)
EXTENDS Integers, Sequences, FiniteSets, Bags, TLC

\* ------------------------------------------------------------------ bounds
\* The clock stops advancing at MaxTime seconds.
MaxTime == 2
\* add() is called with an absolute first-fire time of 0..MaxWhen seconds.
MaxWhen == 1
\* add() is called with period 0 (a one-shot timer) or MaxPeriod seconds.
MaxPeriod == 2
\* At most MaxAdds calls of add() are made by users in one behaviour.
MaxAdds == 2
\* timer_id is an unsigned integer of TimerIdBits bits.
TimerIdBits == 3
\* At most MaxSignals calls of signal() are made in one behaviour.
MaxSignals == 2
\* service.start() leaves at most MaxOps operations pending in the scope.
MaxOps == 1
\* At most MaxThreadAdds calls of add() are made on a context thread by other
\* threads.
MaxThreadAdds == 1
\* At most MaxClients clients connect or send to the services.
MaxClients == 2
\* Each client sends at most MaxBytes bytes.
MaxBytes == 3
\* calls of swap per thread
MaxSwaps == 1
\* The read buffer of a read context holds Size bytes.
Size == 2

\* --------------------------------------------------------------- constants
INVALID_TIMER == (2 ^ TimerIdBits) - 1

\* std::chrono::seconds(1) as a net::timers::duration (microseconds).
Second == 1000000
\* duration_cast<milliseconds> of a microseconds duration.
MicrosPerMilli == 1000
\* The width of int, the return type of to_millis.
IntBits == 32
\* The receive buffer of the ISR.
BUFLEN == 1024
\* enum signals.
terminate == 0
user1 == 1
END == 2
\* enum context_states.
PENDING == 0
STARTED == 1
STOPPED == 2

INVALID_SOCKET == "invalid"
Free == "free"
Resolver == "resolve"

VARIABLES
  events,     \* state_.events: sequence of event records
  eventq,     \* state_.eventq: bag of event_ref records (min-heap by expires_at)
  free_ids,   \* state_.free_ids: stack of timer ids, top is the last element
  mtx_,       \* owner of the timer mutex
  now,        \* clock::now()
  pc,         \* position of the thread that calls resolve()
  tmp,        \* resolve(): the local vector `timers`
  it,         \* remove_if: index (1-based) of the element under the predicate
  result,     \* remove_if: write position, 0 while no element was removed yet
  nadds,      \* number of add() calls by users; names the handler of each
  last,       \* the call completed by the last step
  cancelled,  \* handlers whose timer was the target of a remove()
  fires,      \* per handler, the number of times it was invoked
  sockets,    \* timers.sockets: the socket pair of the interrupt source
  pipe,       \* bytes written to the write end and not yet received
  sigmask,    \* async_context::sigmask
  state,      \* async_context::state
  stop_requested, \* scope.request_stop() was called
  recv_armed, \* the receive of isr() is pending in the scope
  inflight,   \* operations of the service pending in the scope
  is_empty,   \* run(): the flag set when poller.on_empty() completes
  wpc,        \* position of the worker thread of the context thread
  hint,       \* run(): the duration timers.resolve() returned, -1 once used
  deadline,   \* wait_for: the time the poll times out, -1 for never or none
  sig_intr,   \* signal() calls between the fetch_or and the interrupt
  nsignals,   \* number of signal() calls so far
  sent,       \* per signal, the signal() calls since sigmask was last swapped
  unseen,     \* an add() was made that no update_timers has seen
  naps,       \* wait_for calls entered while unseen
  started_,   \* context_thread::started_
  dtor,       \* position of the thread in ~context_thread()
  closed,     \* the descriptors stop() has passed to close, in order
  variant,    \* the service template and the handler it is specialised with
  svc,        \* per service: result of start(), stored fd, pending accepts
  dialogs,    \* the sockets the services read: pending operations, buffers
  backlog,    \* per service, the connections made and not yet accepted
  clients,    \* per client: its connection, bytes sent, bytes echoed to it
  trace,      \* the calls signal_handler has made, in order
  polls,      \* wait_for calls that reported events since terminate, or -1
  timers1,    \* a second timer set: its state_, socket pair and mutex
  swappers,   \* per thread that calls swap: its position and the locks held
  sendfd      \* the descriptors interrupt() calls read and have not sent on

\* The state of the services and of their clients.
svars == <<variant, svc, dialogs, backlog, clients, trace, polls>>

\* The second timer set and the threads that swap the two; the interrupt()
\* calls between their read of sockets[1] and their sendmsg.
xvars == <<timers1, swappers, sendfd>>

tvars == <<events, eventq, free_ids, mtx_, now, pc, tmp, it, result, nadds,
           last, cancelled, fires>>

\* What no operation of the timer set changes except through interrupt().
cvars == <<sockets, sigmask, state, stop_requested, recv_armed, inflight,
           is_empty, wpc, hint, deadline, sig_intr, nsignals, sent, unseen,
           naps, started_, dtor, closed, svars, xvars>>

vars == <<events, eventq, free_ids, mtx_, now, pc, tmp, it, result, nadds,
          last, cancelled, fires, sockets, pipe, sigmask, state,
          stop_requested, recv_armed, inflight, is_empty, wpc, hint,
          deadline, sig_intr, nsignals, sent, unseen, naps, started_, dtor,
          closed, svars, xvars>>

NoCall == [op |-> "none"]

\* A null std::function.
nullptr == 0

\* The handler passed to the n-th add() of a behaviour is named n; First names
\* the handler of a timer that was added before the behaviour starts, and
\* Escalation the handler of the timer the ISR routine adds on terminate.
First == MaxAdds + 1
Escalation == MaxAdds + 2
Handlers == 1 .. Escalation

Whens == {q * Second : q \in 0 .. MaxWhen}
Periods == {0, MaxPeriod * Second}
\* remove() is called with every id in bounds, the first id out of bounds and
\* INVALID_TIMER.
RemoveArgs == (0 .. Len(events)) \cup {INVALID_TIMER}
Signums == terminate .. (END - 1)

\* ----------------------------------------------------------------- helpers
Max(a, b) == IF a >= b THEN a ELSE b

Range(s) == {s[i] : i \in 1 .. Len(s)}

\* events[tid]
Event(tid) == events[tid + 1]

\* detail::operator<=> orders event_refs by expires_at alone; eventq.top() is
\* an entry none is smaller than (std::greater min-heap), ties in any order.
Tops(q) ==
  {r \in BagToSet(q) : \A s \in BagToSet(q) : r.expires_at <= s.expires_at}

Push(q, ref) == q (+) SetToBag({ref})

Pop(q, ref) == q (-) SetToBag({ref})

\* ---------------------------------------------------------------- add/remove
\* interrupt() with the sendmsg left out: nothing is written.
interrupt_nosend(unread) == unread

\* socketpair_interrupt_source_t::interrupt(): one byte is sent on the write
\* end; on an invalid descriptor sendmsg fails and the error is dropped.  The
\* value is the number of unread bytes afterwards.
interrupt(unread) ==
  IF sockets[2] = INVALID_SOCKET THEN unread ELSE unread + 1

\* The body of timers::add: the state after the event is installed and its
\* event_ref pushed, and the id of the event.
add_state(handler, when, period) ==
  LET recycled == free_ids # <<>>
      tid == IF recycled THEN free_ids[Len(free_ids)] ELSE Len(events)
      event == [handler |-> handler, start |-> when,
                period |-> period, armed |-> TRUE]
  IN [tid |-> tid,
      free_ids |-> IF recycled THEN SubSeq(free_ids, 1, Len(free_ids) - 1)
                   ELSE free_ids,
      events |-> IF tid = Len(events) THEN Append(events, event)
                 ELSE [events EXCEPT ![tid + 1] = event],
      eventq |-> Push(eventq, [expires_at |-> when, id |-> tid])]

\* timers::add(when, handler, period) called by a user: the whole call runs
\* under mtx_ and ends with the interrupt.
add(when, period) ==
  /\ mtx_ = Free
  /\ nadds < MaxAdds
  /\ LET a == add_state(nadds + 1, when, period)
     IN /\ free_ids' = a.free_ids
        /\ events' = a.events
        /\ eventq' = a.eventq
        /\ last' = [op |-> "add", val |-> a.tid]
  /\ pipe' = interrupt(pipe)
  /\ cancelled' = cancelled \ {nadds + 1}
  /\ fires' = [fires EXCEPT ![nadds + 1] = 0]
  /\ nadds' = nadds + 1
  /\ UNCHANGED <<mtx_, now, pc, tmp, it, result>>

\* remove without the early return of the bounds check: an id out of bounds
\* is answered like a live one.
remove_nocheck(tid) ==
  /\ mtx_ = Free
  /\ IF tid >= Len(events)
     THEN /\ last' = [op |-> "remove", arg |-> tid, val |-> INVALID_TIMER]
          /\ UNCHANGED <<events, cancelled>>
     ELSE /\ events' = [events EXCEPT ![tid + 1].armed = FALSE]
          /\ cancelled' = cancelled \cup ({Event(tid).handler} \ {nullptr})
          /\ last' = [op |-> "remove", arg |-> tid,
                      val |-> INVALID_TIMER]
  /\ UNCHANGED <<eventq, free_ids, mtx_, now, pc, tmp, it, result, nadds,
                 fires, pipe>>

\* timers::remove(tid): the whole call runs under mtx_.
remove(tid) ==
  /\ mtx_ = Free
  /\ IF tid >= Len(events)
     THEN /\ last' = [op |-> "remove", arg |-> tid, val |-> tid]
          /\ UNCHANGED <<events, cancelled>>
     ELSE /\ events' = [events EXCEPT ![tid + 1].armed = FALSE]
          /\ cancelled' = cancelled \cup ({Event(tid).handler} \ {nullptr})
          /\ last' = [op |-> "remove", arg |-> tid,
                      val |-> INVALID_TIMER]
  /\ UNCHANGED <<eventq, free_ids, mtx_, now, pc, tmp, it, result, nadds,
                 fires, pipe>>

\* A thread other than the one in resolve() calls add on a timer set that
\* no context runs.
Add ==
  /\ \E when \in Whens, period \in Periods : add(when, period)
  /\ UNCHANGED cvars

\* A thread other than the one in resolve() calls remove.
Remove ==
  /\ \E tid \in RemoveArgs : remove(tid)
  /\ UNCHANGED cvars

\* -------------------------------------------------------------------- resolve
\* dequeue_timers testing the expiry before the armed flag: the loop stops at
\* the first entry that is not due, armed or not.
RECURSIVE dequeue_loop_due(_, _)
dequeue_loop_due(st, t) ==
  IF st.eventq = EmptyBag
  THEN {st}
  ELSE UNION {
         IF t < next.expires_at
         THEN {st}
         ELSE IF ~st.events[next.id + 1].armed
         THEN dequeue_loop_due(
                [st EXCEPT !.events[next.id + 1].handler = nullptr,
                           !.free_ids = Append(@, next.id),
                           !.eventq = Pop(@, next)], t)
         ELSE dequeue_loop_due(
                [st EXCEPT !.tmp = Append(@, next),
                           !.eventq = Pop(@, next)], t)
         : next \in Tops(st.eventq)}

\* dequeue_timers: the while loop, from a state of the loop to every result
\* the heap's tie order allows.  st = [events, eventq, free_ids, tmp].
RECURSIVE dequeue_loop(_, _)
dequeue_loop(st, t) ==
  IF st.eventq = EmptyBag
  THEN {st}
  ELSE UNION {
         IF ~st.events[next.id + 1].armed
         THEN dequeue_loop(
                [st EXCEPT !.events[next.id + 1].handler = nullptr,
                           !.free_ids = Append(@, next.id),
                           !.eventq = Pop(@, next)], t)
         ELSE IF t < next.expires_at
         THEN {st}
         ELSE dequeue_loop(
                [st EXCEPT !.tmp = Append(@, next),
                           !.eventq = Pop(@, next)], t)
         : next \in Tops(st.eventq)}

dequeue_timers(t) ==
  dequeue_loop([events |-> events, eventq |-> eventq, free_ids |-> free_ids,
                tmp |-> <<>>], t)

\* update_timers(state, begin, unarmed, end): [1, unarmed) is re-inserted,
\* [unarmed, Len(tmp)] is reclaimed.  The result is the state and the
\* returned duration.
RECURSIVE reinsert(_, _, _, _)
reinsert(ev, q, refs, i) ==
  IF i > Len(refs) THEN q
  ELSE reinsert(ev,
                Push(q, [expires_at |-> refs[i].expires_at
                                         + ev[refs[i].id + 1].period,
                         id |-> refs[i].id]),
                refs, i + 1)

RECURSIVE reclaim(_, _, _)
reclaim(st, refs, i) ==
  IF i > Len(refs) THEN st
  ELSE reclaim([st EXCEPT !.events[refs[i].id + 1].handler = nullptr,
                          !.free_ids = Append(@, refs[i].id)],
               refs, i + 1)

\* update_timers computing its return value before the re-insertion.
update_timers_early(unarmed, t) ==
  LET q == reinsert(events, eventq, SubSeq(tmp, 1, unarmed - 1), 1)
      st == reclaim([events |-> events, free_ids |-> free_ids],
                    SubSeq(tmp, unarmed, Len(tmp)), 1)
      top == CHOOSE r \in Tops(eventq) : TRUE
  IN [events |-> st.events, eventq |-> q, free_ids |-> st.free_ids,
      val |-> IF eventq = EmptyBag THEN -1 ELSE Max(0, top.expires_at - t)]

update_timers(unarmed, t) ==
  LET q == reinsert(events, eventq, SubSeq(tmp, 1, unarmed - 1), 1)
      st == reclaim([events |-> events, free_ids |-> free_ids],
                    SubSeq(tmp, unarmed, Len(tmp)), 1)
      top == CHOOSE r \in Tops(q) : TRUE
  IN [events |-> st.events, eventq |-> q, free_ids |-> st.free_ids,
      val |-> IF q = EmptyBag THEN -1 ELSE Max(0, top.expires_at - t)]

\* resolve() is called: with_lock(mtx_, ...) takes the mutex.
resolve_call ==
  /\ pc = "idle"
  /\ mtx_ = Free
  /\ mtx_' = Resolver
  /\ pc' = "dequeue"
  /\ last' = NoCall
  /\ UNCHANGED <<events, eventq, free_ids, now, tmp, it, result, nadds,
                 cancelled, fires>>

\* A thread calls resolve() on a timer set that no context runs.
ResolveCall ==
  /\ wpc = "none"
  /\ resolve_call
  /\ UNCHANGED <<pipe, cvars>>

\* with_lock whose guard outlives the call.
with_lock_keep == Resolver

\* The mutex after the lock_guard of with_lock goes out of scope.
with_lock_release == Free

\* Phase 1: dequeue_timers under the mutex, then the mutex is released.
DequeueTimers ==
  /\ pc = "dequeue"
  /\ \E st \in dequeue_timers(now) :
       /\ events' = st.events
       /\ eventq' = st.eventq
       /\ free_ids' = st.free_ids
       /\ tmp' = st.tmp
       /\ pc' = IF st.tmp = <<>> THEN "relock" ELSE "fire"
  /\ it' = 1
  /\ result' = 0
  /\ mtx_' = with_lock_release
  /\ last' = NoCall
  /\ UNCHANGED <<now, nadds, cancelled, fires>>
  /\ UNCHANGED <<pipe, cvars>>

\* The predicate of remove_if invoking the handler without testing armed.
FireTest_notest ==
  /\ pc = "fire"
  /\ LET event == Event(tmp[it].id)
     IN IF event.handler = nullptr
        THEN /\ pc' = "threw"
             /\ tmp' = <<>>
             /\ UNCHANGED fires
        ELSE /\ pc' = "handler"
             /\ fires' = [fires EXCEPT ![event.handler] = @ + 1]
             /\ UNCHANGED tmp
  /\ last' = NoCall
  /\ UNCHANGED <<events, eventq, free_ids, mtx_, now, it, result, nadds,
                 cancelled>>
  /\ UNCHANGED <<pipe, cvars>>

\* Phase 2, the predicate of remove_if on tmp[it]: test armed and invoke the
\* handler.  Invoking a null std::function throws std::bad_function_call,
\* which leaves resolve().
FireTest ==
  /\ pc = "fire"
  /\ LET event == Event(tmp[it].id)
     IN IF event.armed
        THEN IF event.handler = nullptr
             THEN /\ pc' = "threw"
                  /\ tmp' = <<>>
                  /\ UNCHANGED fires
             ELSE /\ pc' = "handler"
                  /\ fires' = [fires EXCEPT ![event.handler] = @ + 1]
                  /\ UNCHANGED tmp
        ELSE /\ pc' = "post"
             /\ UNCHANGED <<fires, tmp>>
  /\ last' = NoCall
  /\ UNCHANGED <<events, eventq, free_ids, mtx_, now, it, result, nadds,
                 cancelled>>
  /\ UNCHANGED <<pipe, cvars>>

\* The running handler calls add on the timer set.
HandlerAdd ==
  /\ pc = "handler"
  /\ \E when \in Whens, period \in Periods : add(when, period)
  /\ UNCHANGED cvars

\* The running handler calls remove on the timer set.
HandlerRemove ==
  /\ pc = "handler"
  /\ \E tid \in RemoveArgs : remove(tid)
  /\ UNCHANGED cvars

\* The handler returns.
HandlerReturn ==
  /\ pc = "handler"
  /\ pc' = "post"
  /\ last' = NoCall
  /\ UNCHANGED <<events, eventq, free_ids, mtx_, now, tmp, it, result, nadds,
                 cancelled, fires>>
  /\ UNCHANGED <<pipe, cvars>>

\* std::ranges::remove_if, one element: removed is the predicate's value.
\* Until the first removed element nothing moves; after it every kept
\* element is move-assigned to the write position.
remove_if_step(refs, i, res, removed) ==
  IF res = 0
  THEN [tmp |-> refs, result |-> IF removed THEN i ELSE 0]
  ELSE IF removed
  THEN [tmp |-> refs, result |-> res]
  ELSE [tmp |-> [refs EXCEPT ![res] = refs[i]], result |-> res + 1]

\* Phase 2, the rest of the predicate: a one-shot event is disarmed, and the
\* element is removed if the event is not armed.
FirePost ==
  /\ pc = "post"
  /\ LET tid == tmp[it].id
         armed == IF Event(tid).period = 0 THEN FALSE ELSE Event(tid).armed
         step == remove_if_step(tmp, it, result, ~armed)
     IN /\ events' = [events EXCEPT ![tid + 1].armed = armed]
        /\ tmp' = step.tmp
        /\ result' = step.result
  /\ it' = it + 1
  /\ pc' = IF it = Len(tmp) THEN "relock" ELSE "fire"
  /\ last' = NoCall
  /\ UNCHANGED <<eventq, free_ids, mtx_, now, nadds, cancelled, fires>>
  /\ UNCHANGED <<pipe, cvars>>

\* The second with_lock(mtx_, ...) of resolve() takes the mutex.
ResolveRelock ==
  /\ pc = "relock"
  /\ mtx_ = Free
  /\ mtx_' = Resolver
  /\ pc' = "update"
  /\ last' = NoCall
  /\ UNCHANGED <<events, eventq, free_ids, now, tmp, it, result, nadds,
                 cancelled, fires>>
  /\ UNCHANGED <<pipe, cvars>>

\* The subrange remove_if returns starts at unarmed.
unarmed == IF result = 0 THEN Len(tmp) + 1 ELSE result

\* Phase 3: update_timers under the mutex; resolve() returns its value.
resolve_return ==
  /\ pc = "update"
  /\ LET u == update_timers(unarmed, now)
     IN /\ events' = u.events
        /\ eventq' = u.eventq
        /\ free_ids' = u.free_ids
        /\ last' = [op |-> "resolve", val |-> u.val]
  /\ tmp' = <<>>
  /\ it' = 1
  /\ result' = 0
  /\ mtx_' = with_lock_release
  /\ pc' = "idle"
  /\ UNCHANGED <<now, nadds, cancelled, fires>>

\* resolve() returns to a caller that is not a context.
UpdateTimers ==
  /\ wpc = "none"
  /\ resolve_return
  /\ UNCHANGED <<pipe, cvars>>

\* The steady clock advances.
Tick ==
  /\ now < MaxTime * Second
  /\ now' = now + Second
  /\ last' = NoCall
  /\ UNCHANGED <<events, eventq, free_ids, mtx_, pc, tmp, it, result, nadds,
                 cancelled, fires>>
  /\ UNCHANGED <<pipe, cvars>>

\* ------------------------------------------------------------------ context
Min(a, b) == IF a <= b THEN a ELSE b

\* detail::to_millis(duration): the count itself if negative, else the
\* duration truncated to milliseconds.
to_millis(duration) ==
  IF duration < 0 THEN duration ELSE duration \div MicrosPerMilli

\* A 64-bit count of microseconds is written in half-words of an int:
\* [neg, hi, lo, us] is the count (hi * Limb + lo) * MicrosPerMilli + us,
\* negated if neg.
Limb == 2 ^ (IntBits \div 2)

\* The counts timers.resolve() returns to run(): -1, and the time to the next
\* expiry, which no code bounds: values about zero, about the largest int
\* number of milliseconds and about twice that.
Durations ==
  {[neg |-> TRUE, hi |-> 0, lo |-> 0, us |-> 1]}
    \cup [neg : {FALSE},
          hi : {0, 1, Limb \div 2 - 1, Limb \div 2, Limb - 1, Limb},
          lo : {0, 1, Limb - 1},
          us : {0, 1, MicrosPerMilli - 1}]

\* detail::to_millis on a 64-bit count, with the conversion of the result to
\* the return type int: a negative count (above -2^31 here) is returned as it
\* is; else the count is divided by MicrosPerMilli, truncating, and the
\* quotient hi * Limb + lo is reduced modulo 2^IntBits into the range of int.
to_millis_int(d) ==
  IF d.neg
  THEN 0 - ((d.hi * Limb + d.lo) * MicrosPerMilli + d.us)
  ELSE LET h == d.hi % Limb
       IN IF h >= Limb \div 2
          THEN (h - Limb) * Limb + d.lo
          ELSE h * Limb + d.lo

\* sigmask_ >> signum
ShiftRight(sigmask_, signum) == sigmask_ \div (2 ^ signum)

\* sigmask.fetch_or(1 << signum) stored in place of the or.
fetch_or_store(mask, signum) == 2 ^ signum

\* sigmask.fetch_or(1 << signum): the new value of the mask.
fetch_or(mask, signum) ==
  IF ShiftRight(mask, signum) % 2 = 1 THEN mask ELSE mask + 2 ^ signum

\* The for loop of the ISR routine: the arguments of the calls of
\* service.signal_handler, in the order of the calls.
RECURSIVE signal_loop(_, _)
signal_loop(sigmask_, signum) ==
  IF ShiftRight(sigmask_, signum) = 0
  THEN <<>>
  ELSE (IF ShiftRight(sigmask_, signum) % 2 = 1 THEN <<signum>> ELSE <<>>)
         \o signal_loop(sigmask_, signum + 1)

\* The ISR routine returning true whatever the stop token says: the receive
\* is always spawned again.
isr_rearm(unread) ==
  LET sigmask_ == sigmask
      a == add_state(Escalation, now + Second, Second)
  IN /\ sigmask' = 0
     /\ last' = [op |-> "isr", mask |-> sigmask_,
                 calls |-> signal_loop(sigmask_, 0), sent |-> sent]
     /\ sent' = [n \in Signums |-> 0]
     /\ IF ShiftRight(sigmask_, terminate) % 2 = 1
        THEN /\ mtx_ = Free
             /\ stop_requested' = TRUE
             /\ events' = a.events
             /\ eventq' = a.eventq
             /\ free_ids' = a.free_ids
             /\ pipe' = interrupt(unread)
        ELSE /\ pipe' = unread
             /\ UNCHANGED <<stop_requested, events, eventq, free_ids>>
     /\ recv_armed' = TRUE

\* The routine context_thread::start passes to isr(), followed by the
\* decision of isr() to spawn the receive: sigmask is swapped to 0, the
\* handler is called for every set bit, terminate requests the stop and adds
\* the repeating one-second timer, and the receive is spawned if no stop is
\* requested.  unread is the number of bytes in the socket pair.
isr(unread) ==
  LET sigmask_ == sigmask
      a == add_state(Escalation, now + Second, Second)
  IN /\ sigmask' = 0
     /\ last' = [op |-> "isr", mask |-> sigmask_,
                 calls |-> signal_loop(sigmask_, 0), sent |-> sent]
     /\ sent' = [n \in Signums |-> 0]
     /\ IF ShiftRight(sigmask_, terminate) % 2 = 1
        THEN /\ mtx_ = Free
             /\ stop_requested' = TRUE
             /\ events' = a.events
             /\ eventq' = a.eventq
             /\ free_ids' = a.free_ids
             /\ pipe' = interrupt(unread)
        ELSE /\ pipe' = unread
             /\ UNCHANGED <<stop_requested, events, eventq, free_ids>>
     /\ recv_armed' = ~stop_requested'

\* context_thread::start on the calling thread: the worker is launched.
Start ==
  /\ wpc = "unstarted"
  /\ wpc' = "thread"
  /\ last' = NoCall
  /\ UNCHANGED <<events, eventq, free_ids, mtx_, now, pc, tmp, it, result,
                 nadds, cancelled, fires, sockets, pipe, sigmask, state,
                 stop_requested, recv_armed, inflight, is_empty, hint,
                 deadline, sig_intr, nsignals, sent, unseen, naps>>
  /\ UNCHANGED <<started_, dtor, closed, svars, xvars>>

\* The worker constructs the service and calls socketpair, which may fail.
WorkerSocketpair ==
  /\ wpc = "thread"
  /\ \E ok \in BOOLEAN :
       IF ok
       THEN sockets' = <<"fd0", "fd1">> /\ wpc' = "isr"
       ELSE wpc' = "stop" /\ UNCHANGED sockets
  /\ last' = NoCall
  /\ UNCHANGED <<events, eventq, free_ids, mtx_, now, pc, tmp, it, result,
                 nadds, cancelled, fires, pipe, sigmask, state,
                 stop_requested, recv_armed, inflight, is_empty, hint,
                 deadline, sig_intr, nsignals, sent, unseen, naps>>
  /\ UNCHANGED <<started_, dtor, closed, svars, xvars>>

\* The worker installs the ISR on the read end: the routine runs once.
WorkerIsr ==
  /\ wpc = "isr"
  /\ isr(pipe)
  /\ wpc' = "service"
  /\ UNCHANGED <<mtx_, now, pc, tmp, it, result, nadds, cancelled, fires,
                 sockets, state, inflight, is_empty, hint, deadline,
                 sig_intr, nsignals, unseen, naps>>
  /\ UNCHANGED <<started_, dtor, closed, svars, xvars>>

\* The worker calls service.start, which may leave operations in the scope
\* and may request the scope to stop; the state is set, terminate is
\* signalled if a stop is requested, and run() spawns the on_empty task.
WorkerServiceStart ==
  /\ wpc = "service"
  /\ \E ok \in BOOLEAN, n \in 0 .. MaxOps :
       /\ stop_requested' = (stop_requested \/ ~ok)
       /\ inflight' = IF ok THEN n ELSE 0
  /\ IF stop_requested'
     THEN /\ state' = STOPPED
          /\ sigmask' = fetch_or(sigmask, terminate)
          /\ sent' = [sent EXCEPT ![terminate] = @ + 1]
          /\ pipe' = interrupt(pipe)
     ELSE /\ state' = STARTED
          /\ UNCHANGED <<sigmask, sent, pipe>>
  /\ is_empty' = (~recv_armed /\ inflight' = 0)
  /\ wpc' = "run"
  /\ last' = NoCall
  /\ UNCHANGED <<events, eventq, free_ids, mtx_, now, pc, tmp, it, result,
                 nadds, cancelled, fires, sockets, recv_armed, hint,
                 deadline, sig_intr, nsignals, unseen, naps>>
  /\ UNCHANGED <<started_, dtor, closed, svars, xvars>>

\* run(): the loop calls timers.resolve().
CtxResolveCall ==
  /\ wpc = "run"
  /\ resolve_call
  /\ wpc' = "resolving"
  /\ UNCHANGED <<sockets, pipe, sigmask, state, stop_requested, recv_armed,
                 inflight, is_empty, hint, deadline, sig_intr, nsignals,
                 sent, unseen, naps>>
  /\ UNCHANGED <<started_, dtor, closed, svars, xvars>>

\* run(): timers.resolve() returns its duration to the loop.
CtxUpdateTimers ==
  /\ wpc = "resolving"
  /\ resolve_return
  /\ hint' = last'.val
  /\ unseen' = FALSE
  /\ naps' = 0
  /\ wpc' = "resolved"
  /\ UNCHANGED <<sockets, pipe, sigmask, state, stop_requested, recv_armed,
                 inflight, is_empty, deadline, sig_intr, nsignals, sent>>
  /\ UNCHANGED <<started_, dtor, closed, svars, xvars>>

\* run(): poller.wait_for(to_millis(hint)) is entered.
PollEnter ==
  /\ wpc = "resolved"
  /\ deadline' = IF to_millis(hint) < 0 THEN -1
                 ELSE now + to_millis(hint) * MicrosPerMilli
  /\ hint' = -1
  /\ naps' = IF unseen THEN naps + 1 ELSE naps
  /\ wpc' = "poll"
  /\ last' = NoCall
  /\ UNCHANGED <<events, eventq, free_ids, mtx_, now, pc, tmp, it, result,
                 nadds, cancelled, fires, sockets, pipe, sigmask, state,
                 stop_requested, recv_armed, inflight, is_empty, sig_intr,
                 nsignals, sent, unseen>>
  /\ UNCHANGED <<started_, dtor, closed, svars, xvars>>

\* wait_for: the read end is readable, the receive of the ISR completes with
\* up to BUFLEN bytes and its continuation calls isr() again.
PollIsr ==
  /\ wpc = "poll"
  /\ recv_armed
  /\ pipe > 0
  /\ isr(pipe - Min(pipe, BUFLEN))
  /\ is_empty' = (is_empty \/ (~recv_armed' /\ inflight = 0))
  /\ deadline' = -1
  /\ wpc' = "run"
  /\ UNCHANGED <<mtx_, now, pc, tmp, it, result, nadds, cancelled, fires,
                 sockets, state, inflight, hint, sig_intr, nsignals, unseen,
                 naps>>
  /\ UNCHANGED <<started_, dtor, closed, svars, xvars>>

\* The receive of the ISR completing with an error and the continuation
\* calling isr() all the same: the routine runs and the receive is spawned.
PollIsrError_retry ==
  /\ wpc = "poll"
  /\ recv_armed
  /\ isr(pipe)
  /\ is_empty' = (is_empty \/ (~recv_armed' /\ inflight = 0))
  /\ deadline' = -1
  /\ wpc' = "run"
  /\ UNCHANGED <<mtx_, now, pc, tmp, it, result, nadds, cancelled, fires,
                 sockets, state, inflight, hint, sig_intr, nsignals, unseen,
                 naps>>
  /\ UNCHANGED <<started_, dtor, closed, svars, xvars>>

\* wait_for: the receive of the ISR completes with an error; upon_error
\* swallows it, the routine is not called and nothing is spawned.
PollIsrError ==
  /\ wpc = "poll"
  /\ recv_armed
  /\ recv_armed' = FALSE
  /\ is_empty' = (is_empty \/ inflight = 0)
  /\ deadline' = -1
  /\ wpc' = "run"
  /\ last' = [op |-> "isr_error"]
  /\ UNCHANGED <<events, eventq, free_ids, mtx_, now, pc, tmp, it, result,
                 nadds, cancelled, fires, sockets, pipe, sigmask, state,
                 stop_requested, inflight, hint, sig_intr, nsignals, sent,
                 unseen, naps>>
  /\ UNCHANGED <<started_, dtor, closed, svars, xvars>>

\* wait_for: an operation of the service completes.
PollOp ==
  /\ wpc = "poll"
  /\ inflight > 0
  /\ inflight' = inflight - 1
  /\ is_empty' = (is_empty \/ (~recv_armed /\ inflight' = 0))
  /\ deadline' = -1
  /\ wpc' = "run"
  /\ last' = NoCall
  /\ UNCHANGED <<events, eventq, free_ids, mtx_, now, pc, tmp, it, result,
                 nadds, cancelled, fires, sockets, pipe, sigmask, state,
                 stop_requested, recv_armed, hint, sig_intr, nsignals, sent,
                 unseen, naps>>
  /\ UNCHANGED <<started_, dtor, closed, svars, xvars>>

\* The loop of run() without the test of the empty flag: it is left as soon
\* as a wait reports no events.
PollTimeout_noflag ==
  /\ wpc = "poll"
  /\ deadline >= 0
  /\ now >= deadline
  /\ ~(recv_armed /\ pipe > 0)
  /\ deadline' = -1
  /\ wpc' = "stop"
  /\ last' = NoCall
  /\ UNCHANGED <<events, eventq, free_ids, mtx_, now, pc, tmp, it, result,
                 nadds, cancelled, fires, sockets, pipe, sigmask, state,
                 stop_requested, recv_armed, inflight, is_empty, hint,
                 sig_intr, nsignals, sent, unseen, naps>>
  /\ UNCHANGED <<started_, dtor, closed, svars, xvars>>

\* wait_for: the timeout passes with nothing ready; run() leaves the loop if
\* the empty flag is set.
PollTimeout ==
  /\ wpc = "poll"
  /\ deadline >= 0
  /\ now >= deadline
  /\ ~(recv_armed /\ pipe > 0)
  /\ deadline' = -1
  /\ wpc' = IF is_empty THEN "stop" ELSE "run"
  /\ last' = NoCall
  /\ UNCHANGED <<events, eventq, free_ids, mtx_, now, pc, tmp, it, result,
                 nadds, cancelled, fires, sockets, pipe, sigmask, state,
                 stop_requested, recv_armed, inflight, is_empty, hint,
                 sig_intr, nsignals, sent, unseen, naps>>
  /\ UNCHANGED <<started_, dtor, closed, svars, xvars>>

\* stop() with the test of the descriptor left out: close is always called.
stop_close_always(socket) == <<socket>>

\* context_thread::stop: the descriptors passed to close, given the value
\* read from timers.sockets[1].
stop_close(socket) == IF socket # INVALID_SOCKET THEN <<socket>> ELSE <<>>

\* context_thread::stop: the write end is closed and the state is STOPPED.
WorkerStop ==
  /\ wpc = "stop"
  /\ sockets' = [sockets EXCEPT ![2] = INVALID_SOCKET]
  /\ closed' = closed \o stop_close(sockets[2])
  /\ state' = STOPPED
  /\ wpc' = "done"
  /\ last' = NoCall
  /\ UNCHANGED <<events, eventq, free_ids, mtx_, now, pc, tmp, it, result,
                 nadds, cancelled, fires, pipe, sigmask, stop_requested,
                 recv_armed, inflight, is_empty, hint, deadline, sig_intr,
                 nsignals, sent, unseen, naps>>
  /\ UNCHANGED <<started_, dtor, svars, xvars>>

\* signal(signum) with the or of fetch_or left out: the mask is overwritten.
signal_set_store(signum) ==
  /\ nsignals < MaxSignals
  /\ sigmask' = 2 ^ signum
  /\ sent' = [sent EXCEPT ![signum] = @ + 1]
  /\ sig_intr' = sig_intr + 1
  /\ nsignals' = nsignals + 1

\* async_context::signal(signum), first half: the bit is set in sigmask.
signal_set(signum) ==
  /\ nsignals < MaxSignals
  /\ sigmask' = fetch_or(sigmask, signum)
  /\ sent' = [sent EXCEPT ![signum] = @ + 1]
  /\ sig_intr' = sig_intr + 1
  /\ nsignals' = nsignals + 1

\* A thread calls signal(signum) on the context.
SignalSet ==
  /\ \E signum \in Signums : signal_set(signum)
  /\ last' = NoCall
  /\ UNCHANGED <<events, eventq, free_ids, mtx_, now, pc, tmp, it, result,
                 nadds, cancelled, fires, sockets, pipe, state,
                 stop_requested, recv_armed, inflight, is_empty, wpc, hint,
                 deadline, unseen, naps>>
  /\ UNCHANGED <<started_, dtor, closed, svars, xvars>>

\* async_context::signal(signum), second half: interrupt().
SignalInterrupt ==
  /\ sig_intr > 0
  /\ sig_intr' = sig_intr - 1
  /\ pipe' = interrupt(pipe)
  /\ last' = NoCall
  /\ UNCHANGED <<events, eventq, free_ids, mtx_, now, pc, tmp, it, result,
                 nadds, cancelled, fires, sockets, sigmask, state,
                 stop_requested, recv_armed, inflight, is_empty, wpc, hint,
                 deadline, nsignals, sent, unseen, naps>>
  /\ UNCHANGED <<started_, dtor, closed, svars, xvars>>

\* A thread other than the worker calls timers.add on the context.
CtxAdd ==
  /\ nadds < MaxThreadAdds
  /\ \E when \in Whens, period \in Periods : add(when, period)
  /\ unseen' = TRUE
  /\ UNCHANGED <<sockets, sigmask, state, stop_requested, recv_armed,
                 inflight, is_empty, wpc, hint, deadline, sig_intr, nsignals,
                 sent, naps>>
  /\ UNCHANGED <<started_, dtor, closed, svars, xvars>>

\* ---------------------------------------------------------------- lifecycle
\* What the calls on the context thread from outside the worker leave alone.
wvars == <<events, eventq, free_ids, mtx_, now, pc, tmp, it, result, nadds,
           cancelled, fires, sockets, state, stop_requested, recv_armed,
           inflight, is_empty, hint, deadline, nsignals, unseen, naps,
           closed, svars, xvars>>

\* context_thread::start on the calling thread, after the worker is
\* launched: started_ is set and start() returns, whatever the state is.
StartReturn ==
  /\ wpc # "unstarted"
  /\ ~started_
  /\ dtor = "none"
  /\ started_' = TRUE
  /\ last' = [op |-> "start", val |-> "returned", state |-> state]
  /\ UNCHANGED <<wvars, wpc, pipe, sigmask, sent, sig_intr, dtor>>

\* start() called again with the test of started_ left out: a worker is
\* launched again and start() returns.
StartAgain_nocheck ==
  /\ started_
  /\ dtor = "none"
  /\ wpc' = "thread"
  /\ last' = [op |-> "start", val |-> "returned", state |-> state]
  /\ UNCHANGED <<wvars, pipe, sigmask, sent, sig_intr, started_, dtor>>

\* context_thread::start called after a start() that returned: started_ is
\* set and std::invalid_argument is thrown.
StartAgain ==
  /\ started_
  /\ dtor = "none"
  /\ last' = [op |-> "start", val |-> "invalid_argument", state |-> state]
  /\ UNCHANGED <<wvars, wpc, pipe, sigmask, sent, sig_intr, started_, dtor>>

\* ~context_thread, entered when no start() is in progress: it returns at
\* once if started_ is not set, else the terminate bit is set in sigmask.
Destroy ==
  /\ dtor = "none"
  /\ started_ \/ wpc = "unstarted"
  /\ IF started_
     THEN /\ sigmask' = fetch_or(sigmask, terminate)
          /\ sent' = [sent EXCEPT ![terminate] = @ + 1]
          /\ dtor' = "signal"
     ELSE /\ dtor' = "returned"
          /\ UNCHANGED <<sigmask, sent>>
  /\ last' = [op |-> "destroy", started |-> started_]
  /\ UNCHANGED <<wvars, wpc, pipe, sig_intr, started_>>

\* ~context_thread: the interrupt() of signal(terminate).
DestroyInterrupt ==
  /\ dtor = "signal"
  /\ pipe' = interrupt(pipe)
  /\ dtor' = "join"
  /\ last' = NoCall
  /\ UNCHANGED <<wvars, wpc, sigmask, sent, sig_intr, started_>>

\* ~context_thread: server_.join() returns when the worker has ended.
DestroyJoin ==
  /\ dtor = "join"
  /\ wpc = "done"
  /\ dtor' = "returned"
  /\ last' = NoCall
  /\ UNCHANGED <<wvars, wpc, pipe, sigmask, sent, sig_intr, started_>>

\* The clock advances past the horizon to the timeout of the poll the
\* draining worker sleeps in when nothing else can wake it.
TickToTimeout ==
  /\ now >= MaxTime * Second
  /\ wpc = "poll"
  /\ stop_requested
  /\ inflight = 0
  /\ now < deadline
  /\ now' = now + Second
  /\ last' = NoCall
  /\ UNCHANGED <<events, eventq, free_ids, mtx_, pc, tmp, it, result, nadds,
                 cancelled, fires>>
  /\ UNCHANGED <<pipe, cvars>>

\* ----------------------------------------------------------------- services
\* The services a test fixture constructs: service_v4 and service_v6.
NumServices == 2
Svcs == 1 .. NumServices
Clients == 1 .. MaxClients

\* What the services and the fixture that hosts them leave alone.
hvars == <<events, eventq, free_ids, mtx_, now, pc, tmp, it, result, nadds,
           cancelled, fires, sockets, state, inflight, is_empty, wpc, hint,
           deadline, unseen, naps, started_, dtor, closed, xvars>>

\* The service templates and the handlers they are specialised with: the
\* echo handlers of the tests; the handler of a TCP service may define
\* stop().
Variants ==
  { [proto |-> "tcp", handler |-> "echo", has_stop |-> TRUE],
    [proto |-> "tcp", handler |-> "echo", has_stop |-> FALSE],
    [proto |-> "udp", handler |-> "echo", has_stop |-> FALSE] }

\* The descriptor of the socket start() creates for service s.
ListenFd(s) == IF s = 1 THEN "fd_v4" ELSE "fd_v6"

\* A service on which start() was not called.
NotStarted ==
  [ret |-> "none", up |-> FALSE, sockfd |-> INVALID_SOCKET, accepts |-> 0,
   shut |-> FALSE]

\* No send is pending on a dialog.
NoSend == [to |-> 0, len |-> 0]

\* The calls initialize_ makes, in order.
InitSteps(proto) ==
  IF proto = "tcp"
  THEN <<"setsockopt", "initialize", "bind", "getsockname", "listen">>
  ELSE <<"setsockopt", "initialize", "bind", "getsockname">>

\* The calls of initialize_ that can report an error, and "none".
Failures(proto) == (Range(InitSteps(proto)) \ {"getsockname"}) \cup {"none"}

\* initialize_ returns at the first call that fails.
RECURSIVE run_steps(_, _)
run_steps(steps, fail) ==
  IF steps = <<>>
  THEN <<>>
  ELSE IF Head(steps) = fail
       THEN <<Head(steps)>>
       ELSE <<Head(steps)>> \o run_steps(Tail(steps), fail)

\* initialize_(socket) when the call named fail reports an error: the calls
\* made and the error code returned (errno, or the code of the handler).
initialize_(proto, fail) ==
  [steps |-> run_steps(InitSteps(proto), fail),
   error |-> IF fail = "none" THEN "ok"
             ELSE IF fail = "initialize" THEN "invalid_argument"
             ELSE "errno"]

\* async_tcp_service::start storing the descriptor before initialize_ runs.
tcp_start_store_first(r, s, fail) ==
  LET i == initialize_("tcp", fail)
  IN IF i.error # "ok"
     THEN [svc |-> [r EXCEPT !.ret = "void", !.sockfd = ListenFd(s)],
           steps |-> <<"store">> \o i.steps,
           stop |-> TRUE]
     ELSE [svc |-> [r EXCEPT !.ret = "void", !.up = TRUE,
                             !.sockfd = ListenFd(s), !.accepts = 1],
           steps |-> <<"store">> \o i.steps \o <<"accept">>,
           stop |-> FALSE]

\* async_tcp_service::start on the service record r: a failure of
\* initialize_ requests the stop of the scope and returns; else the
\* descriptor is stored and the acceptor spawns the first accept.
tcp_start(r, s, fail) ==
  LET i == initialize_("tcp", fail)
  IN IF i.error # "ok"
     THEN [svc |-> [r EXCEPT !.ret = "void"],
           steps |-> i.steps,
           stop |-> TRUE]
     ELSE [svc |-> [r EXCEPT !.ret = "void", !.up = TRUE,
                             !.sockfd = ListenFd(s), !.accepts = 1],
           steps |-> i.steps \o <<"store", "accept">>,
           stop |-> FALSE]

\* A dialog on which nothing is pending: the listening socket of a UDP
\* service (peer 0) or a connection accepted from client peer, with a fresh
\* read context.
new_dialog(s, peer) ==
  [svc |-> s, peer |-> peer, ops |-> {}, inbox |-> <<>>, eof |-> FALSE,
   buffer |-> <<>>, addr |-> 0, out |-> NoSend]

\* async_udp_service::start swallowing the error of initialize_.
udp_start_swallow(r, s, fail) ==
  LET i == initialize_("udp", fail)
  IN IF i.error # "ok"
     THEN [svc |-> [r EXCEPT !.ret = "ok"],
           steps |-> i.steps,
           dialogs |-> <<>>]
     ELSE [svc |-> [r EXCEPT !.ret = "ok", !.up = TRUE,
                             !.sockfd = ListenFd(s)],
           steps |-> i.steps \o <<"store", "recv">>,
           dialogs |-> <<[new_dialog(s, 0) EXCEPT !.ops = {"recv"}]>>]

\* async_udp_service::start: the error of initialize_ is returned; else the
\* descriptor is stored and the first receive is submitted on the socket.
udp_start(r, s, fail) ==
  LET i == initialize_("udp", fail)
  IN IF i.error # "ok"
     THEN [svc |-> [r EXCEPT !.ret = i.error],
           steps |-> i.steps,
           dialogs |-> <<>>]
     ELSE [svc |-> [r EXCEPT !.ret = "ok", !.up = TRUE,
                             !.sockfd = ListenFd(s)],
           steps |-> i.steps \o <<"store", "recv">>,
           dialogs |-> <<[new_dialog(s, 0) EXCEPT !.ops = {"recv"}]>>]

\* The test calls start(ctx) on a TCP service.
TcpStart ==
  /\ variant.proto = "tcp"
  /\ \E s \in Svcs, fail \in Failures("tcp") :
       /\ svc[s].ret = "none"
       /\ LET t == tcp_start(svc[s], s, fail)
          IN /\ svc' = [svc EXCEPT ![s] = t.svc]
             /\ stop_requested' = (stop_requested \/ t.stop)
             /\ last' = [op |-> "start", svc |-> s, steps |-> t.steps]
  /\ UNCHANGED <<hvars, sigmask, pipe, sent, sig_intr, nsignals, recv_armed>>
  /\ UNCHANGED <<variant, dialogs, backlog, clients, trace, polls>>

\* The test calls start(ctx) on a UDP service.
UdpStart ==
  /\ variant.proto = "udp"
  /\ \E s \in Svcs, fail \in Failures("udp") :
       /\ svc[s].ret = "none"
       /\ LET t == udp_start(svc[s], s, fail)
          IN /\ svc' = [svc EXCEPT ![s] = t.svc]
             /\ dialogs' = dialogs \o t.dialogs
             /\ last' = [op |-> "start", svc |-> s, steps |-> t.steps]
  /\ UNCHANGED <<hvars, sigmask, pipe, sent, sig_intr, nsignals, recv_armed,
                 stop_requested>>
  /\ UNCHANGED <<variant, backlog, clients, trace, polls>>

\* stop_ of the TCP service without the test of the old descriptor.
stop_tcp_unguarded(r, s) ==
  [svc |-> [r EXCEPT !.sockfd = INVALID_SOCKET,
                     !.shut = (@ \/ r.sockfd # INVALID_SOCKET)],
   calls |-> <<[svc |-> s, call |-> "shutdown", fd |-> r.sockfd]>>]

\* async_tcp_service::stop_: acceptor_sockfd_ is exchanged with
\* INVALID_SOCKET and the read side of the old descriptor is shut down if it
\* was valid.
stop_tcp(r, s) ==
  [svc |-> [r EXCEPT !.sockfd = INVALID_SOCKET,
                     !.shut = (@ \/ r.sockfd # INVALID_SOCKET)],
   calls |-> IF r.sockfd # INVALID_SOCKET
             THEN <<[svc |-> s, call |-> "shutdown", fd |-> r.sockfd]>>
             ELSE <<>>]

\* stop_ of the UDP service reading server_sockfd_ without exchanging it.
stop_udp_keep(r, s) ==
  [svc |-> [r EXCEPT !.shut = (@ \/ r.sockfd # INVALID_SOCKET)],
   calls |-> <<[svc |-> s, call |-> "shutdown", fd |-> r.sockfd]>>]

\* async_udp_service::stop_: server_sockfd_ is exchanged with INVALID_SOCKET
\* and shutdown is called with the old descriptor, whatever it is.
stop_udp(r, s) ==
  [svc |-> [r EXCEPT !.sockfd = INVALID_SOCKET,
                     !.shut = (@ \/ r.sockfd # INVALID_SOCKET)],
   calls |-> <<[svc |-> s, call |-> "shutdown", fd |-> r.sockfd]>>]

\* signal_handler(signum) of service s: on terminate the TCP service calls
\* the stop() of its handler if there is one and then stop_; the UDP service
\* calls stop_; no other signal has an effect.
signal_handler(r, s, signum) ==
  IF signum # terminate
  THEN [svc |-> r, calls |-> <<>>]
  ELSE IF variant.proto = "tcp"
       THEN LET st == stop_tcp(r, s)
            IN [svc |-> st.svc,
                calls |-> (IF variant.has_stop
                           THEN <<[svc |-> s, call |-> "stop",
                                   fd |-> INVALID_SOCKET]>>
                           ELSE <<>>) \o st.calls]
       ELSE stop_udp(r, s)

\* The loop of the routine of the fixture: for every signal of calls the
\* handler of service_v4 and then the handler of service_v6 is called.
RECURSIVE deliver(_, _)
deliver(st, calls) ==
  IF calls = <<>>
  THEN st
  ELSE LET v4 == signal_handler(st.svc[1], 1, Head(calls))
           v6 == signal_handler(st.svc[2], 2, Head(calls))
       IN deliver([svc |-> [st.svc EXCEPT ![1] = v4.svc, ![2] = v6.svc],
                   trace |-> st.trace \o v4.calls \o v6.calls],
                  Tail(calls))

\* The tests allow DrainLimit wait_for calls to report events after
\* terminate before they fail.
DrainLimit == 4

\* A wait_for call that reports events counts if terminate was signalled;
\* the count stops one above DrainLimit.
Counted(n) == IF n >= 0 /\ n <= DrainLimit THEN n + 1 ELSE n

\* wait_for: the receive of the ISR of the fixture completes and isr() runs
\* the routine: sigmask is swapped to 0 and the signals are delivered to the
\* services; on terminate the routine returns false, the stop of the scope is
\* requested and no receive is spawned.
WaitIsr ==
  /\ recv_armed
  /\ pipe > 0
  /\ LET sigmask_ == sigmask
         calls == signal_loop(sigmask_, 0)
         st == deliver([svc |-> svc, trace |-> trace], calls)
         again == ShiftRight(sigmask_, terminate) % 2 = 0
     IN /\ sigmask' = 0
        /\ svc' = st.svc
        /\ trace' = st.trace
        /\ recv_armed' = again
        /\ stop_requested' = (stop_requested \/ ~again)
        /\ last' = [op |-> "isr", mask |-> sigmask_, calls |-> calls,
                    sent |-> sent]
  /\ sent' = [n \in Signums |-> 0]
  /\ pipe' = pipe - Min(pipe, BUFLEN)
  /\ polls' = Counted(polls)
  /\ UNCHANGED <<hvars, sig_intr, nsignals>>
  /\ UNCHANGED <<variant, dialogs, backlog, clients>>

\* submit_recv: nothing is spawned for a null read context.
submit_recv(d, rctx) ==
  IF ~rctx THEN d ELSE [d EXCEPT !.ops = @ \cup {"recv"}]

\* echo() of the handler submitting the next receive at once instead of in
\* the continuation of the send.
echo_eager(d, to, len) ==
  [d EXCEPT !.ops = @ \cup {"send", "recv"}, !.out = [to |-> to, len |-> len]]

\* echo() of the echo handler: the first len bytes of the read buffer are
\* sent to the address to.
echo(d, to, len) ==
  [d EXCEPT !.ops = @ \cup {"send"}, !.out = [to |-> to, len |-> len]]

\* service() of the echo handler, called by emit with a read context (null
\* or not) and a buffer of len bytes: it returns on a null read context and
\* else echoes to the source address (UDP) or on the connection (TCP).
service(d, rctx, len) ==
  IF ~rctx
  THEN d
  ELSE echo(d, IF variant.proto = "udp" THEN d.addr ELSE d.peer, len)

\* The acceptor spawning the next accept after a failure too.
accept_failed_retry(r) == [r EXCEPT !.accepts = @ - 1 + 1]

\* acceptor, upon_error: the accept has completed and nothing is spawned.
accept_failed(r) == [r EXCEPT !.accepts = @ - 1]

\* wait_for: the accept of a TCP service completes.  With a connection it
\* emits the new dialog with a fresh read context and an empty buffer, and
\* the acceptor spawns the next accept; it fails if the listening socket is
\* shut down, or whenever the system call reports an error.
WaitAccept ==
  /\ \E s \in Svcs :
       /\ svc[s].accepts > 0
       /\ \/ /\ backlog[s] # <<>>
             /\ ~svc[s].shut
             /\ LET c == Head(backlog[s])
                IN /\ dialogs' =
                        Append(dialogs, service(new_dialog(s, c), TRUE, 0))
                   /\ clients' = [clients EXCEPT ![c].stat = "connected"]
             /\ backlog' = [backlog EXCEPT ![s] = Tail(@)]
             /\ svc' = [svc EXCEPT ![s].accepts = @ - 1 + 1]
             /\ last' = NoCall
          \/ /\ svc' = [svc EXCEPT ![s] = accept_failed(@)]
             /\ last' = NoCall
             /\ UNCHANGED <<dialogs, backlog, clients>>
  /\ polls' = Counted(polls)
  /\ UNCHANGED <<hvars, sigmask, pipe, sent, sig_intr, nsignals, recv_armed,
                 stop_requested>>
  /\ UNCHANGED <<variant, trace>>

\* The results a pending receive on dialog d can complete with: a length, or
\* -1 for an error.  A connection delivers the bytes that arrived, 0 after
\* the peer closed, or an error after the peer reset; the socket of a UDP
\* service delivers a datagram, or an error once its read side is shut down.
RecvResults(d) ==
  IF variant.proto = "tcp"
  THEN (IF d.inbox # <<>> THEN 1 .. Min(Len(d.inbox), Size) ELSE {})
         \cup (IF d.eof /\ d.inbox = <<>> THEN {0} ELSE {})
         \cup (IF d.eof THEN {-1} ELSE {})
  ELSE (IF d.inbox # <<>> THEN {1} ELSE {})
         \cup (IF svc[d.svc].shut THEN {-1} ELSE {})

\* The continuation of the receive passing the read context on for length 0.
recv_emit_keep(proto, len) ==
  IF len < 0
  THEN [rctx |-> FALSE, n |-> 0]
  ELSE [rctx |-> TRUE, n |-> len]

\* The continuations of the receive: what is passed to emit for a result.
\* The TCP service passes a null read context and an empty buffer for length
\* 0 and for an error, the UDP service for an error only; else the read
\* context and the first len bytes of its buffer are passed.
recv_emit(proto, len) ==
  IF len < 0 \/ (proto = "tcp" /\ len = 0)
  THEN [rctx |-> FALSE, n |-> 0]
  ELSE [rctx |-> TRUE, n |-> len]

\* wait_for: a receive submitted by submit_recv completes and the handler is
\* called through emit.
WaitRecv ==
  /\ \E i \in 1 .. Len(dialogs) :
       LET d == dialogs[i]
       IN /\ "recv" \in d.ops
          /\ \E len \in RecvResults(d) :
               LET e == recv_emit(variant.proto, len)
                   k == Max(len, 0)
                   got == SubSeq(d.inbox, 1, k)
                   buffer2 == [j \in 1 .. Max(k, Len(d.buffer)) |->
                                 IF j <= k THEN got[j].data ELSE d.buffer[j]]
                   d1 == [d EXCEPT !.ops = @ \ {"recv"},
                                   !.inbox = SubSeq(@, k + 1, Len(@)),
                                   !.buffer = buffer2,
                                   !.addr = IF k > 0 THEN got[1].from ELSE @]
               IN /\ dialogs' = [dialogs EXCEPT ![i] = service(d1, e.rctx, e.n)]
                  /\ last' = [op |-> "service", socket |-> i, len |-> len,
                              rctx |-> e.rctx, buf |-> SubSeq(buffer2, 1, e.n)]
  /\ polls' = Counted(polls)
  /\ UNCHANGED <<hvars, sigmask, pipe, sent, sig_intr, nsignals, recv_armed,
                 stop_requested>>
  /\ UNCHANGED <<variant, svc, backlog, clients, trace>>

\* wait_for: the send of the echo handler completes: the bytes of the read
\* buffer reach the client and the continuation submits the next receive; a
\* send to a peer that has closed can fail, and then nothing is submitted.
WaitSend ==
  /\ \E i \in 1 .. Len(dialogs) :
       LET d == dialogs[i]
           to == d.out.to
           d1 == [d EXCEPT !.ops = @ \ {"send"}, !.out = NoSend]
       IN /\ "send" \in d.ops
          /\ \/ /\ dialogs' = [dialogs EXCEPT ![i] = submit_recv(d1, TRUE)]
                /\ clients' =
                     IF to \in Clients /\ clients[to].stat # "closed"
                     THEN [clients EXCEPT ![to].echoed =
                             @ \o SubSeq(d.buffer, 1, d.out.len)]
                     ELSE clients
                /\ last' = NoCall
             \/ /\ d.eof
                /\ dialogs' = [dialogs EXCEPT ![i] = d1]
                /\ last' = NoCall
                /\ UNCHANGED clients
  /\ polls' = Counted(polls)
  /\ UNCHANGED <<hvars, sigmask, pipe, sent, sig_intr, nsignals, recv_armed,
                 stop_requested>>
  /\ UNCHANGED <<variant, svc, backlog, trace>>

\* A client connects to a TCP service that listens.
ClientConnect ==
  /\ variant.proto = "tcp"
  /\ \E c \in Clients, s \in Svcs :
       /\ clients[c].stat = "idle"
       /\ svc[s].up
       /\ ~svc[s].shut
       /\ backlog' = [backlog EXCEPT ![s] = Append(@, c)]
       /\ clients' = [clients EXCEPT ![c].stat = "connecting"]
  /\ last' = NoCall
  /\ UNCHANGED <<hvars, sigmask, pipe, sent, sig_intr, nsignals, recv_armed,
                 stop_requested>>
  /\ UNCHANGED <<variant, svc, dialogs, trace, polls>>

\* The k-th byte client c sends: the test sends the letters of the alphabet
\* in order, and the bytes of different clients are told apart.
Byte(c, k) == (MaxBytes + 1) * c + k

\* A client sends its next byte: on its connection, or as a datagram to a
\* UDP service that is bound.
ClientSend ==
  /\ \E c \in Clients, i \in 1 .. Len(dialogs) :
       /\ clients[c].sent < MaxBytes
       /\ IF variant.proto = "tcp"
          THEN dialogs[i].peer = c /\ clients[c].stat = "connected"
          ELSE dialogs[i].peer = 0
       /\ dialogs' = [dialogs EXCEPT ![i].inbox =
                        Append(@, [from |-> c,
                                   data |-> Byte(c, clients[c].sent + 1)])]
       /\ clients' = [clients EXCEPT ![c].sent = @ + 1]
  /\ last' = NoCall
  /\ UNCHANGED <<hvars, sigmask, pipe, sent, sig_intr, nsignals, recv_armed,
                 stop_requested>>
  /\ UNCHANGED <<variant, svc, backlog, trace, polls>>

\* A client closes its connection.
ClientClose ==
  /\ \E c \in Clients, i \in 1 .. Len(dialogs) :
       /\ clients[c].stat = "connected"
       /\ dialogs[i].peer = c
       /\ dialogs' = [dialogs EXCEPT ![i].eof = TRUE]
       /\ clients' = [clients EXCEPT ![c].stat = "closed"]
  /\ last' = NoCall
  /\ UNCHANGED <<hvars, sigmask, pipe, sent, sig_intr, nsignals, recv_armed,
                 stop_requested>>
  /\ UNCHANGED <<variant, svc, backlog, trace, polls>>

\* The test calls signal(signum) on the context from the thread that calls
\* wait_for: the bit is set in sigmask and the interrupt is sent.
TestSignal ==
  /\ \E signum \in Signums :
       /\ nsignals < MaxSignals
       /\ sigmask' = fetch_or(sigmask, signum)
       /\ sent' = [sent EXCEPT ![signum] = @ + 1]
       /\ nsignals' = nsignals + 1
       /\ polls' = IF signum = terminate /\ polls < 0 THEN 0 ELSE polls
  /\ pipe' = interrupt(pipe)
  /\ last' = NoCall
  /\ UNCHANGED <<hvars, sig_intr, recv_armed, stop_requested>>
  /\ UNCHANGED <<variant, svc, dialogs, backlog, clients, trace>>

\* No service is constructed and no client exists.
NoService ==
  /\ variant = [proto |-> "none", handler |-> "none", has_stop |-> FALSE]
  /\ svc = <<>>
  /\ dialogs = <<>>
  /\ backlog = <<>>
  /\ clients = <<>>
  /\ trace = <<>>
  /\ polls = -1

\* --------------------------------------------------------------------- swap
\* The timer sets of the swap tests: 0 is the set of the variables events,
\* eventq, free_ids, sockets and mtx_, 1 is timers1.
Objects == {0, 1}

\* The threads that call swap.
Swappers == {1, 2}

\* The name under which thread t owns a mutex.
Owner(t) == IF t = 1 THEN "swap1" ELSE "swap2"

\* timers(): empty state_, the socket pair of a default-constructed
\* interrupt source, a free mutex.  pipe counts the unread bytes of the
\* socket pair the set holds.
Fresh ==
  [alive |-> TRUE, events |-> <<>>, eventq |-> EmptyBag, free_ids |-> <<>>,
   sockets |-> <<INVALID_SOCKET, INVALID_SOCKET>>, pipe |-> 0, mtx_ |-> Free]

\* The second timer set before its constructor has run.
NotConstructed == [Fresh EXCEPT !.alive = FALSE]

\* The first timer set as a record.
Timers0 ==
  [alive |-> TRUE, events |-> events, eventq |-> eventq,
   free_ids |-> free_ids, sockets |-> sockets, pipe |-> pipe, mtx_ |-> mtx_]

\* The mutex of a timer set.
Mtx(o) == IF o = 0 THEN mtx_ ELSE timers1.mtx_

\* swap without the swap of the interrupt base.
swap_state_nointerrupt(l, r) ==
  [lhs |-> [l EXCEPT !.events = r.events, !.eventq = r.eventq,
                     !.free_ids = r.free_ids],
   rhs |-> [r EXCEPT !.events = l.events, !.eventq = l.eventq,
                     !.free_ids = l.free_ids]]

\* swap(lhs, rhs), the two swaps under the lock: state_ and the interrupt
\* base are exchanged, the mutexes are not.
swap_state(l, r) ==
  [lhs |-> [l EXCEPT !.events = r.events, !.eventq = r.eventq,
                     !.free_ids = r.free_ids, !.sockets = r.sockets,
                     !.pipe = r.pipe],
   rhs |-> [r EXCEPT !.events = l.events, !.eventq = l.eventq,
                     !.free_ids = l.free_ids, !.sockets = l.sockets,
                     !.pipe = l.pipe]]

\* The two mutexes locked one after the other: the first is kept while the
\* thread blocks on the second.
scoped_lock_in_order(l, r, h) ==
  {[keep |-> TRUE, first |-> o] : o \in {l, r} \ {h}}

\* std::scoped_lock(lhs.mtx_, rhs.mtx_) after try_lock has failed while h is
\* held: h is released and the thread blocks on one of the two mutexes;
\* which one is left to the library.
scoped_lock_retry(l, r, h) ==
  {[keep |-> FALSE, first |-> o] : o \in {l, r}}

\* What the steps of swap and of the move constructor leave alone.
qvars == <<now, pc, tmp, it, result, nadds, cancelled, fires, sigmask, state,
           stop_requested, recv_armed, inflight, is_empty, wpc, hint,
           deadline, sig_intr, nsignals, sent, unseen, naps, started_, dtor,
           closed, svars, sendfd>>

\* The state of the first timer set.
zvars == <<events, eventq, free_ids, sockets, pipe>>

\* timers_type(): the second timer set is default-constructed.
Construct1 ==
  /\ ~timers1.alive
  /\ timers1' = Fresh
  /\ last' = NoCall
  /\ UNCHANGED <<zvars, mtx_, swappers, qvars>>

\* timers_type(std::move(timers0)): the second timer set is constructed by
\* timers() and swap(*this, other); no other thread knows the new set, so
\* the call is one step under the mutex of the first.
MoveConstruct1 ==
  /\ ~timers1.alive
  /\ mtx_ = Free
  /\ pc = "idle"
  /\ LET x == swap_state(Fresh, Timers0)
     IN /\ timers1' = x.lhs
        /\ events' = x.rhs.events
        /\ eventq' = x.rhs.eventq
        /\ free_ids' = x.rhs.free_ids
        /\ sockets' = x.rhs.sockets
        /\ pipe' = x.rhs.pipe
  /\ last' = [op |-> "move", thread |-> 0, lhs |-> 1, rhs |-> 0]
  /\ UNCHANGED <<mtx_, swappers, qvars>>

\* A thread calls swap(l, r), or l = std::move(r), which calls it, while no
\* resolve() is in progress: for l and r the same set the call returns at
\* once, else the thread goes on to lock the two mutexes, lhs.mtx_ first.
SwapCall ==
  /\ pc = "idle"
  /\ timers1.alive
  /\ \E t \in Swappers, l \in Objects, r \in Objects :
       /\ swappers[t].pc = "idle"
       /\ swappers[t].calls < MaxSwaps
       /\ swappers' =
            [swappers EXCEPT ![t] =
               IF l = r
               THEN [@ EXCEPT !.calls = @ + 1]
               ELSE [pc |-> "lock", lhs |-> l, rhs |-> r, first |-> l,
                     held |-> {}, calls |-> @.calls + 1]]
       /\ last' = IF l = r
                  THEN [op |-> "swap", thread |-> t, lhs |-> l, rhs |-> r]
                  ELSE NoCall
  /\ UNCHANGED <<zvars, mtx_, timers1, qvars>>

\* scoped_lock: the thread blocks on a mutex until it is free and takes it.
SwapLock ==
  /\ \E t \in Swappers :
       LET w == swappers[t]
           held == w.held \cup {w.first}
       IN /\ w.pc = "lock"
          /\ Mtx(w.first) = Free
          /\ IF w.first = 0
             THEN mtx_' = Owner(t) /\ UNCHANGED timers1
             ELSE /\ timers1' = [timers1 EXCEPT !.mtx_ = Owner(t)]
                  /\ UNCHANGED mtx_
          /\ swappers' =
               [swappers EXCEPT ![t].held = held,
                                ![t].pc = IF held = {w.lhs, w.rhs}
                                          THEN "locked" ELSE "try"]
  /\ last' = NoCall
  /\ UNCHANGED <<zvars, qvars>>

\* scoped_lock: holding one mutex the thread tries the other; if that one is
\* taken it starts over.
SwapTry ==
  /\ \E t \in Swappers :
       LET w == swappers[t]
           other == CHOOSE o \in {w.lhs, w.rhs} : o \notin w.held
       IN /\ w.pc = "try"
          /\ IF Mtx(other) = Free
             THEN /\ IF other = 0
                     THEN mtx_' = Owner(t) /\ UNCHANGED timers1
                     ELSE /\ timers1' = [timers1 EXCEPT !.mtx_ = Owner(t)]
                          /\ UNCHANGED mtx_
                  /\ swappers' = [swappers EXCEPT ![t].held = {w.lhs, w.rhs},
                                                  ![t].pc = "locked"]
             ELSE \E cfg \in scoped_lock_retry(w.lhs, w.rhs, w.first) :
                    /\ IF cfg.keep
                       THEN UNCHANGED <<mtx_, timers1>>
                       ELSE IF w.first = 0
                       THEN mtx_' = Free /\ UNCHANGED timers1
                       ELSE /\ timers1' = [timers1 EXCEPT !.mtx_ = Free]
                            /\ UNCHANGED mtx_
                    /\ swappers' =
                         [swappers EXCEPT
                            ![t].held = IF cfg.keep THEN @ ELSE {},
                            ![t].first = cfg.first,
                            ![t].pc = "lock"]
  /\ last' = NoCall
  /\ UNCHANGED <<zvars, qvars>>

\* swap: with both mutexes locked, state_ and the interrupt base of the two
\* sets are exchanged.
SwapExchange ==
  /\ \E t \in Swappers :
       LET w == swappers[t]
           x == IF w.lhs = 0 THEN swap_state(Timers0, timers1)
                ELSE swap_state(timers1, Timers0)
           t0 == IF w.lhs = 0 THEN x.lhs ELSE x.rhs
           t1 == IF w.lhs = 0 THEN x.rhs ELSE x.lhs
       IN /\ w.pc = "locked"
          /\ timers1' = t1
          /\ events' = t0.events
          /\ eventq' = t0.eventq
          /\ free_ids' = t0.free_ids
          /\ sockets' = t0.sockets
          /\ pipe' = t0.pipe
          /\ swappers' = [swappers EXCEPT ![t].pc = "unlock"]
          /\ last' = [op |-> "swap", thread |-> t, lhs |-> w.lhs,
                      rhs |-> w.rhs]
  /\ UNCHANGED <<mtx_, qvars>>

\* swap returns: the scoped_lock releases both mutexes.
SwapUnlock ==
  /\ \E t \in Swappers :
       /\ swappers[t].pc = "unlock"
       /\ swappers' = [swappers EXCEPT ![t].pc = "idle", ![t].held = {}]
  /\ mtx_' = Free
  /\ timers1' = [timers1 EXCEPT !.mtx_ = Free]
  /\ last' = NoCall
  /\ UNCHANGED <<zvars, qvars>>

\* The body of timers::add on the timer set st.
add_to(st, handler, when, period) ==
  LET recycled == st.free_ids # <<>>
      tid == IF recycled THEN st.free_ids[Len(st.free_ids)]
             ELSE Len(st.events)
      event == [handler |-> handler, start |-> when,
                period |-> period, armed |-> TRUE]
  IN [tid |-> tid,
      st |-> [st EXCEPT
                !.free_ids = IF recycled
                             THEN SubSeq(@, 1, Len(@) - 1) ELSE @,
                !.events = IF tid = Len(@) THEN Append(@, event)
                           ELSE [@ EXCEPT ![tid + 1] = event],
                !.eventq = Push(@, [expires_at |-> when, id |-> tid]),
                !.pipe = IF st.sockets[2] = INVALID_SOCKET
                         THEN @ ELSE @ + 1]]

\* A thread calls add on the first timer set: a one-shot timer that is due.
Add0 ==
  /\ add(0, 0)
  /\ UNCHANGED cvars

\* A thread calls add on the second timer set: a one-shot timer that is due.
Add1 ==
  /\ timers1.alive
  /\ timers1.mtx_ = Free
  /\ nadds < MaxAdds
  /\ \E when \in {0}, period \in {0} :
       LET a == add_to(timers1, nadds + 1, when, period)
       IN /\ timers1' = a.st
          /\ last' = [op |-> "add1", val |-> a.tid]
  /\ cancelled' = cancelled \ {nadds + 1}
  /\ fires' = [fires EXCEPT ![nadds + 1] = 0]
  /\ nadds' = nadds + 1
  /\ UNCHANGED <<zvars, mtx_, swappers, now, pc, tmp, it, result, sigmask,
                 state, stop_requested, recv_armed, inflight, is_empty, wpc,
                 hint, deadline, sig_intr, nsignals, sent, unseen, naps,
                 started_, dtor, closed, svars, sendfd>>

\* A thread calls resolve() on the first timer set while no swap is in
\* progress.
SwapResolveCall ==
  /\ \A t \in Swappers : swappers[t].pc = "idle"
  /\ ResolveCall

\* No interrupt() call is between its read of sockets[1] and its sendmsg.
NoInterrupting == sendfd = <<>>

\* io::sendmsg(fd, msg, MSG_NOSIGNAL) on the write end: the number of unread
\* bytes afterwards.  On the invalid descriptor or on one that close() has
\* released the call fails and the error is dropped.
sendmsg(fd, unread) ==
  IF fd = INVALID_SOCKET \/ (\E i \in 1 .. Len(closed) : closed[i] = fd)
  THEN unread
  ELSE unread + 1

\* socketpair_interrupt_source_t::interrupt(), first half: the calling thread
\* reads sockets[1], without synchronisation, as the argument of sendmsg.
interrupt_read(by) == sendfd' = Append(sendfd, [by |-> by, fd |-> sockets[2]])

\* socketpair_interrupt_source_t::interrupt(), second half: the calling
\* thread sends one byte on the descriptor it read.
interrupt_send(by) ==
  \E i \in 1 .. Len(sendfd) :
    /\ sendfd[i].by = by
    /\ pipe' = sendmsg(sendfd[i].fd, pipe)
    /\ sendfd' = SubSeq(sendfd, 1, i - 1) \o SubSeq(sendfd, i + 1, Len(sendfd))
    /\ last' = [op |-> "sendmsg", fd |-> sendfd[i].fd,
                closed |-> \E j \in 1 .. Len(closed) : closed[j] = sendfd[i].fd]

\* async_context::signal(signum), second half: interrupt() reads sockets[1].
SignalRead ==
  /\ sig_intr > 0
  /\ sig_intr' = sig_intr - 1
  /\ interrupt_read("signal")
  /\ last' = NoCall
  /\ UNCHANGED <<events, eventq, free_ids, mtx_, now, pc, tmp, it, result,
                 nadds, cancelled, fires, sockets, pipe, sigmask, state,
                 stop_requested, recv_armed, inflight, is_empty, wpc, hint,
                 deadline, nsignals, sent, unseen, naps>>
  /\ UNCHANGED <<started_, dtor, closed, svars, timers1, swappers>>

\* async_context::signal(signum), last step: interrupt() calls sendmsg.
SignalSend ==
  /\ interrupt_send("signal")
  /\ UNCHANGED <<events, eventq, free_ids, mtx_, now, pc, tmp, it, result,
                 nadds, cancelled, fires, sockets, sigmask, state,
                 stop_requested, recv_armed, inflight, is_empty, wpc, hint,
                 deadline, sig_intr, nsignals, sent, unseen, naps>>
  /\ UNCHANGED <<started_, dtor, closed, svars, timers1, swappers>>

\* ~context_thread: the interrupt() of signal(terminate) reads sockets[1].
DestroyRead ==
  /\ dtor = "signal"
  /\ interrupt_read("dtor")
  /\ dtor' = "sendmsg"
  /\ last' = NoCall
  /\ UNCHANGED <<events, eventq, free_ids, mtx_, now, pc, tmp, it, result,
                 nadds, cancelled, fires, sockets, pipe, sigmask, state,
                 stop_requested, recv_armed, inflight, is_empty, wpc, hint,
                 deadline, sig_intr, nsignals, sent, unseen, naps>>
  /\ UNCHANGED <<started_, closed, svars, timers1, swappers>>

\* ~context_thread: the interrupt() of signal(terminate) calls sendmsg.
DestroySend ==
  /\ dtor = "sendmsg"
  /\ interrupt_send("dtor")
  /\ dtor' = "join"
  /\ UNCHANGED <<events, eventq, free_ids, mtx_, now, pc, tmp, it, result,
                 nadds, cancelled, fires, sockets, sigmask, state,
                 stop_requested, recv_armed, inflight, is_empty, wpc, hint,
                 deadline, sig_intr, nsignals, sent, unseen, naps>>
  /\ UNCHANGED <<started_, closed, svars, timers1, swappers>>

\* No second timer set exists and no thread calls swap.
NoSwap ==
  /\ timers1 = NotConstructed
  /\ swappers = [t \in Swappers |->
                   [pc |-> "idle", lhs |-> 0, rhs |-> 0, first |-> 0,
                    held |-> {}, calls |-> 0]]

\* ------------------------------------------------------------ specification
\* A default-constructed context that no thread runs.
InitContext ==
  /\ sockets = <<INVALID_SOCKET, INVALID_SOCKET>>
  /\ pipe = 0
  /\ sigmask = 0
  /\ state = PENDING
  /\ stop_requested = FALSE
  /\ recv_armed = FALSE
  /\ inflight = 0
  /\ is_empty = FALSE
  /\ wpc = "none"
  /\ hint = -1
  /\ deadline = -1
  /\ sig_intr = 0
  /\ nsignals = 0
  /\ sent = [n \in Signums |-> 0]
  /\ unseen = FALSE
  /\ naps = 0
  /\ started_ = FALSE
  /\ dtor = "none"
  /\ closed = <<>>
  /\ NoService
  /\ NoSwap
  /\ NoInterrupting

\* A default-constructed timer set, as in the tests of the timers.
Init ==
  /\ InitContext
  /\ events = <<>>
  /\ eventq = EmptyBag
  /\ free_ids = <<>>
  /\ mtx_ = Free
  /\ now = 0
  /\ pc = "idle"
  /\ tmp = <<>>
  /\ it = 1
  /\ result = 0
  /\ nadds = 0
  /\ last = NoCall
  /\ cancelled = {}
  /\ fires = [h \in Handlers |-> 0]

Next ==
  \/ HandlerAdd
  \/ HandlerRemove
  \/ HandlerReturn
  \/ Add
  \/ Remove
  \/ ResolveCall
  \/ DequeueTimers
  \/ FireTest
  \/ FirePost
  \/ ResolveRelock
  \/ UpdateTimers
  \/ Tick

Spec == Init /\ [][Next]_vars

\* The timer set after add(0, handler, 0): one armed one-shot timer, id 0.
InitLoaded ==
  /\ InitContext
  /\ events = <<[handler |-> First, start |-> 0, period |-> 0,
                 armed |-> TRUE]>>
  /\ eventq = SetToBag({[expires_at |-> 0, id |-> 0]})
  /\ free_ids = <<>>
  /\ mtx_ = Free
  /\ now = 0
  /\ pc = "idle"
  /\ tmp = <<>>
  /\ it = 1
  /\ result = 0
  /\ nadds = 0
  /\ last = NoCall
  /\ cancelled = {}
  /\ fires = [h \in Handlers |-> 0]

SpecLoaded == InitLoaded /\ [][Next]_vars

\* A context thread before start(): the timer set is empty and the socket
\* pair is not created yet.
InitThread ==
  /\ events = <<>>
  /\ eventq = EmptyBag
  /\ free_ids = <<>>
  /\ mtx_ = Free
  /\ now = 0
  /\ pc = "idle"
  /\ tmp = <<>>
  /\ it = 1
  /\ result = 0
  /\ nadds = 0
  /\ last = NoCall
  /\ cancelled = {}
  /\ fires = [h \in Handlers |-> 0]
  /\ sockets = <<INVALID_SOCKET, INVALID_SOCKET>>
  /\ pipe = 0
  /\ sigmask = 0
  /\ state = PENDING
  /\ stop_requested = FALSE
  /\ recv_armed = FALSE
  /\ inflight = 0
  /\ is_empty = FALSE
  /\ wpc = "unstarted"
  /\ hint = -1
  /\ deadline = -1
  /\ sig_intr = 0
  /\ nsignals = 0
  /\ sent = [n \in Signums |-> 0]
  /\ unseen = FALSE
  /\ naps = 0
  /\ started_ = FALSE
  /\ dtor = "none"
  /\ closed = <<>>
  /\ NoService
  /\ NoSwap
  /\ NoInterrupting

NextThread ==
  \/ Start
  \/ WorkerSocketpair
  \/ WorkerIsr
  \/ WorkerServiceStart
  \/ CtxResolveCall
  \/ DequeueTimers
  \/ FireTest
  \/ HandlerReturn
  \/ FirePost
  \/ ResolveRelock
  \/ CtxUpdateTimers
  \/ PollEnter
  \/ PollIsr
  \/ PollOp
  \/ PollTimeout
  \/ WorkerStop
  \/ SignalSet
  \/ SignalInterrupt
  \/ CtxAdd
  \/ Tick

SpecThread == InitThread /\ [][NextThread]_vars

\* The timers added to the context before start(): none, a one-shot timer
\* due after one second, or a one-shot and a periodic timer due at once.
TimerLoads ==
  { <<>>,
    <<[handler |-> 1, start |-> Second, period |-> 0, armed |-> TRUE]>>,
    <<[handler |-> 1, start |-> 0, period |-> 0, armed |-> TRUE],
      [handler |-> 2, start |-> 0, period |-> MaxPeriod * Second,
       armed |-> TRUE]>> }

\* A context thread before start() whose timer set was loaded by add().
InitLife ==
  /\ events \in TimerLoads
  /\ eventq = SetToBag({[expires_at |-> events[i].start, id |-> i - 1] :
                          i \in 1 .. Len(events)})
  /\ free_ids = <<>>
  /\ mtx_ = Free
  /\ now = 0
  /\ pc = "idle"
  /\ tmp = <<>>
  /\ it = 1
  /\ result = 0
  /\ nadds = Len(events)
  /\ last = NoCall
  /\ cancelled = {}
  /\ fires = [h \in Handlers |-> 0]
  /\ sockets = <<INVALID_SOCKET, INVALID_SOCKET>>
  /\ pipe = 0
  /\ sigmask = 0
  /\ state = PENDING
  /\ stop_requested = FALSE
  /\ recv_armed = FALSE
  /\ inflight = 0
  /\ is_empty = FALSE
  /\ wpc = "unstarted"
  /\ hint = -1
  /\ deadline = -1
  /\ sig_intr = 0
  /\ nsignals = 0
  /\ sent = [n \in Signums |-> 0]
  /\ unseen = FALSE
  /\ naps = 0
  /\ started_ = FALSE
  /\ dtor = "none"
  /\ closed = <<>>
  /\ NoService
  /\ NoSwap
  /\ NoInterrupting

NextLife ==
  \/ Start
  \/ StartReturn
  \/ StartAgain
  \/ WorkerSocketpair
  \/ WorkerIsr
  \/ WorkerServiceStart
  \/ CtxResolveCall
  \/ DequeueTimers
  \/ FireTest
  \/ HandlerReturn
  \/ FirePost
  \/ ResolveRelock
  \/ CtxUpdateTimers
  \/ PollEnter
  \/ PollIsr
  \/ PollOp
  \/ PollTimeout
  \/ WorkerStop
  \/ SignalSet
  \/ SignalInterrupt
  \/ Destroy
  \/ DestroyInterrupt
  \/ DestroyJoin
  \/ Tick
  \/ TickToTimeout

SpecLife == InitLife /\ [][NextLife]_vars

\* The context thread of SpecLife with every interrupt() of another thread
\* taken in its two steps: the read of sockets[1], then the sendmsg.
NextRace ==
  \/ Start
  \/ StartReturn
  \/ StartAgain
  \/ WorkerSocketpair
  \/ WorkerIsr
  \/ WorkerServiceStart
  \/ CtxResolveCall
  \/ DequeueTimers
  \/ FireTest
  \/ HandlerReturn
  \/ FirePost
  \/ ResolveRelock
  \/ CtxUpdateTimers
  \/ PollEnter
  \/ PollIsr
  \/ PollOp
  \/ PollTimeout
  \/ WorkerStop
  \/ SignalSet
  \/ SignalRead
  \/ SignalSend
  \/ Destroy
  \/ DestroyRead
  \/ DestroySend
  \/ DestroyJoin
  \/ Tick
  \/ TickToTimeout

\* A context thread before start() with no timer added.
InitRace == InitLife /\ events = <<>>

SpecRace == InitRace /\ [][NextRace]_vars

\* run(): timers.resolve() returns; the count depends on the timers added.
RunResolve ==
  /\ last.op = "to_millis"
  /\ \E d \in Durations : last' = [op |-> "resolve", val |-> d]
  /\ UNCHANGED <<events, eventq, free_ids, mtx_, now, pc, tmp, it, result,
                 nadds, cancelled, fires, pipe, cvars>>

\* run(): to_millis is applied to the count resolve() returned.
RunToMillis ==
  /\ last.op = "resolve"
  /\ last' = [op |-> "to_millis", arg |-> last.val,
              val |-> to_millis_int(last.val)]
  /\ UNCHANGED <<events, eventq, free_ids, mtx_, now, pc, tmp, it, result,
                 nadds, cancelled, fires, pipe, cvars>>

\* run() of a context after its first resolve() returned.
InitMillis ==
  /\ InitContext
  /\ events = <<>>
  /\ eventq = EmptyBag
  /\ free_ids = <<>>
  /\ mtx_ = Free
  /\ now = 0
  /\ pc = "idle"
  /\ tmp = <<>>
  /\ it = 1
  /\ result = 0
  /\ nadds = 0
  /\ last \in {[op |-> "resolve", val |-> d] : d \in Durations}
  /\ cancelled = {}
  /\ fires = [h \in Handlers |-> 0]

NextMillis ==
  \/ RunResolve
  \/ RunToMillis

SpecMillis == InitMillis /\ [][NextMillis]_vars

\* The context thread when the receive of the ISR may fail.
NextIsr ==
  \/ PollIsrError
  \/ Start
  \/ StartReturn
  \/ StartAgain
  \/ WorkerSocketpair
  \/ WorkerIsr
  \/ WorkerServiceStart
  \/ CtxResolveCall
  \/ DequeueTimers
  \/ FireTest
  \/ HandlerReturn
  \/ FirePost
  \/ ResolveRelock
  \/ CtxUpdateTimers
  \/ PollEnter
  \/ PollIsr
  \/ PollOp
  \/ PollTimeout
  \/ WorkerStop
  \/ SignalSet
  \/ SignalInterrupt
  \/ Destroy
  \/ DestroyInterrupt
  \/ DestroyJoin
  \/ Tick
  \/ TickToTimeout

SpecIsr == InitLife /\ [][NextIsr]_vars

\* The context of the fixture of the service tests after SetUp: no thread
\* runs it, its socket pair is open and the ISR is installed on the read end.
InitFixture ==
  /\ events = <<>>
  /\ eventq = EmptyBag
  /\ free_ids = <<>>
  /\ mtx_ = Free
  /\ now = 0
  /\ pc = "idle"
  /\ tmp = <<>>
  /\ it = 1
  /\ result = 0
  /\ nadds = 0
  /\ last = NoCall
  /\ cancelled = {}
  /\ fires = [h \in Handlers |-> 0]
  /\ sockets = <<"fd0", "fd1">>
  /\ pipe = 0
  /\ sigmask = 0
  /\ state = PENDING
  /\ stop_requested = FALSE
  /\ recv_armed = TRUE
  /\ inflight = 0
  /\ is_empty = FALSE
  /\ wpc = "none"
  /\ hint = -1
  /\ deadline = -1
  /\ sig_intr = 0
  /\ nsignals = 0
  /\ sent = [n \in Signums |-> 0]
  /\ unseen = FALSE
  /\ naps = 0
  /\ started_ = FALSE
  /\ dtor = "none"
  /\ closed = <<>>

\* The fixture after SetUp: two services of one kind that are not started
\* and clients that are idle.
InitService ==
  /\ InitFixture
  /\ variant \in Variants
  /\ svc = [s \in Svcs |-> NotStarted]
  /\ dialogs = <<>>
  /\ backlog = [s \in Svcs |-> <<>>]
  /\ clients = [c \in Clients |-> [stat |-> "idle", sent |-> 0,
                                   echoed |-> <<>>]]
  /\ trace = <<>>
  /\ polls = -1
  /\ NoSwap
  /\ NoInterrupting

NextService ==
  \/ TcpStart
  \/ UdpStart
  \/ TestSignal
  \/ WaitIsr
  \/ WaitAccept
  \/ WaitRecv
  \/ WaitSend
  \/ ClientConnect
  \/ ClientClose

SpecService == InitService /\ [][NextService]_vars

\* The fixture after the test has started service_v4 without an error.
InitEcho ==
  /\ InitFixture
  /\ variant \in Variants
  /\ svc = [s \in Svcs |->
             IF s # 1 THEN NotStarted
             ELSE IF variant.proto = "tcp"
                  THEN tcp_start(NotStarted, s, "none").svc
                  ELSE udp_start(NotStarted, s, "none").svc]
  /\ dialogs = IF variant.proto = "tcp" THEN <<>>
               ELSE udp_start(NotStarted, 1, "none").dialogs
  /\ backlog = [s \in Svcs |-> <<>>]
  /\ clients = [c \in Clients |-> [stat |-> "idle", sent |-> 0,
                                   echoed |-> <<>>]]
  /\ trace = <<>>
  /\ polls = -1
  /\ NoSwap
  /\ NoInterrupting

\* The services at work: connections are accepted, bytes are received and
\* echoed, clients connect, send and close.
NextEcho ==
  \/ WaitAccept
  \/ WaitRecv
  \/ WaitSend
  \/ ClientConnect
  \/ ClientSend
  \/ ClientClose

SpecEcho == InitEcho /\ [][NextEcho]_vars

\* The test calls wait_for in a loop: an accept, a receive or a send that
\* can complete is completed.
SpecEchoFair ==
  /\ SpecEcho
  /\ WF_vars(WaitAccept)
  /\ WF_vars(WaitRecv)
  /\ WF_vars(WaitSend)

\* Two timer sets, the first with its socket pair open, and two threads
\* that swap them while other threads add, remove and resolve timers that
\* are due.
InitSwap ==
  /\ InitFixture
  /\ NoService
  /\ NoSwap
  /\ NoInterrupting

NextSwap ==
  \/ Construct1
  \/ MoveConstruct1
  \/ SwapCall
  \/ SwapLock
  \/ SwapTry
  \/ SwapExchange
  \/ SwapUnlock
  \/ Add0
  \/ Add1
  \/ Remove
  \/ SwapResolveCall
  \/ DequeueTimers
  \/ FireTest
  \/ HandlerReturn
  \/ FirePost
  \/ ResolveRelock
  \/ UpdateTimers

SpecSwap == InitSwap /\ [][NextSwap]_vars

\* The steps of the worker thread.
Worker ==
  \/ WorkerSocketpair
  \/ WorkerIsr
  \/ WorkerServiceStart
  \/ CtxResolveCall
  \/ DequeueTimers
  \/ FireTest
  \/ HandlerReturn
  \/ FirePost
  \/ ResolveRelock
  \/ CtxUpdateTimers
  \/ PollEnter
  \/ PollIsr
  \/ PollOp
  \/ PollTimeout
  \/ WorkerStop

\* The worker thread runs while it can, a call of signal() or of the
\* destructor that was begun is completed, the clock advances, and an
\* operation of the service that is pending in the scope completes.
SpecLifeFair ==
  /\ SpecLife
  /\ WF_vars(Worker)
  /\ SF_vars(PollOp)
  /\ WF_vars(SignalInterrupt)
  /\ WF_vars(DestroyInterrupt \/ DestroyJoin)
  /\ WF_vars(Tick \/ TickToTimeout)

\* ------------------------------------------------------------------ claims
Ids == 0 .. (Len(events) - 1)

Queued(tid) == \E r \in BagToSet(eventq) : r.id = tid

Working(tid) == \E i \in 1 .. Len(tmp) : tmp[i].id = tid

\* The ids a live timer holds: its event is armed, or an event_ref for it is
\* still in eventq or in the working list of resolve().
HeldIds == {tid \in Ids : Event(tid).armed \/ Queued(tid) \/ Working(tid)}

ArmedRefs == {r \in BagToSet(eventq) : Event(r.id).armed}

\* C1: the id add returns is the fresh id events.size() - 1 or an id that was
\* in free_ids, and it is not an id a live timer still holds.
C1_AddReturnsUnheldId ==
  [][last'.op = "add" =>
       /\ last'.val = Len(events') - 1 \/ last'.val \in Range(free_ids)
       /\ last'.val \notin HeldIds]_vars

\* C2 (as claimed): resolve returns -1 exactly if no armed entry is in the
\* heap when it finishes, and otherwise max(0, next armed expiry - now).
C2_ReturnCountsArmedOnly ==
  last.op = "resolve" =>
    /\ last.val = -1 <=> ArmedRefs = {}
    /\ \A r \in ArmedRefs :
         (\A s \in ArmedRefs : r.expires_at <= s.expires_at)
           => last.val = Max(0, r.expires_at - now)

\* C2 (amended): resolve returns -1 exactly if eventq is empty when it
\* finishes, and otherwise max(0, expires_at - now) of the heap's top entry,
\* whether the timer of that entry is armed or not.
C2_ReturnCountsQueued ==
  last.op = "resolve" =>
    /\ last.val = -1 <=> eventq = EmptyBag
    /\ \A r \in Tops(eventq) : last.val = Max(0, r.expires_at - now)

\* resolve returned a wait for an entry whose timer was removed.
C2_Witness ==
  /\ last.op = "resolve"
  /\ last.val >= 0
  /\ eventq # EmptyBag
  /\ ArmedRefs = {}

\* C3: the fire phase never invokes the handler of a timer that remove was
\* called on before the phase reached its entry.
C3_RemovedNeverFires ==
  [][(pc = "fire" /\ pc' = "handler")
       => Event(tmp[it].id).handler \notin cancelled]_vars

\* The fire phase skipped the entry of a removed timer that never fired.
C3_Witness ==
  /\ pc = "post"
  /\ Event(tmp[it].id).handler # nullptr
  /\ Event(tmp[it].id).handler \in cancelled
  /\ fires[Event(tmp[it].id).handler] = 0

\* C4: once resolve has returned and no event_ref of a removed timer is left
\* in the heap, the id of that timer is in free_ids (resolve pushed it when
\* the entry left the heap).
C4_RemovedIsReclaimed ==
  pc = "idle" =>
    \A tid \in Ids :
      (Event(tid).handler \in cancelled /\ ~Queued(tid))
        => tid \in Range(free_ids)

\* C5: while no timer was removed, a periodic timer fires whenever the fire phase
\* reaches its entry; the k-th firing is for the entry with
\* expires_at = start + k * period and not before that time; and when resolve
\* returns, a periodic timer that fired and is armed is queued and the
\* result is not -1.
C5_PeriodicFires ==
  [][/\ (pc = "fire" /\ pc' # "fire")
          => LET ref == tmp[it]
                 event == Event(ref.id)
             IN (event.period > 0 /\ event.armed /\ cancelled = {})
                  => /\ pc' = "handler"
                     /\ ref.expires_at
                          = event.start + fires[event.handler] * event.period
                     /\ ref.expires_at <= now
     /\ (last'.op = "resolve" /\ cancelled = {})
          => \A i \in 1 .. Len(tmp) :
               LET tid == tmp[i].id
               IN (events'[tid + 1].period > 0 /\ events'[tid + 1].armed)
                    => /\ \E r \in BagToSet(eventq') : r.id = tid
                       /\ last'.val # -1]_vars

\* C6 (in the states where no resolve is in progress): an id is in free_ids
\* exactly if its event is unarmed and no event_ref for it is in eventq.
C6_FreeIffUnarmedUnqueued ==
  pc = "idle" =>
    \A tid \in Ids :
      tid \in Range(free_ids) <=> (~Event(tid).armed /\ ~Queued(tid))

\* C7: remove with an id out of bounds returns the id and changes nothing;
\* called with the INVALID_TIMER a remove of a live id returned, it returns
\* INVALID_TIMER and changes nothing.
C7_RemoveOutOfBounds ==
  [][/\ (last'.op = "remove" /\ last'.arg >= Len(events))
          => /\ last'.val = last'.arg
             /\ UNCHANGED <<events, eventq, free_ids, mtx_, pc, tmp, it,
                            result, cancelled, fires>>
     /\ (/\ last.op = "remove" /\ last.arg < Len(events)
         /\ last'.op = "remove" /\ last'.arg = last.val)
          => /\ last.val = INVALID_TIMER
             /\ last'.val = INVALID_TIMER
             /\ UNCHANGED <<events, eventq, free_ids, mtx_, pc, tmp, it,
                            result, cancelled, fires>>]_vars

\* remove(INVALID_TIMER) returned INVALID_TIMER while a removed timer exists.
C7_Witness ==
  /\ last.op = "remove"
  /\ last.arg = INVALID_TIMER
  /\ last.val = INVALID_TIMER
  /\ \E tid \in Ids : Event(tid).handler \in cancelled

\* C9: the thread in resolve holds the mutex in the dequeue phase and in the
\* update phase and at no other time; while a handler runs the mutex is free
\* and a remove from the handler can complete.
C9_NoLockAcrossHandler ==
  /\ mtx_ = Resolver <=> pc \in {"dequeue", "update"}
  /\ pc \in {"fire", "handler", "post"} => mtx_ = Free
  /\ pc = "handler" => ENABLED HandlerRemove

\* A call of the timer API completed while a handler was running.
C9_Witness ==
  /\ pc = "handler"
  /\ last.op \in {"add", "remove"}
  /\ mtx_ = Free

\* The worker sleeps in wait_for and the timeout has not passed.
Asleep == wpc = "poll" /\ (deadline = -1 \/ now < deadline)

\* The timeout of the poll is later than the expiry of a queued entry.
Stale ==
  \E r \in BagToSet(eventq) : deadline = -1 \/ r.expires_at < deadline

\* The read end is readable and the receive of the ISR is pending.
WakePending == recv_armed /\ pipe > 0

\* C8 (as claimed): after an add from another thread the worker enters
\* wait_for at most once before update_timers sees the timer, and whenever it
\* sleeps on a timeout computed without the timer a wake-up is pending.
C8_AddAlwaysWakes ==
  /\ naps <= 1
  /\ (Asleep /\ unseen /\ Stale) => WakePending

\* C8 (amended): after an add from another thread the worker enters wait_for
\* at most once before update_timers sees the timer, and whenever it sleeps
\* on a timeout computed without the timer while the receive of the ISR is
\* pending, the read end is readable.
C8_AddWakesArmedIsr ==
  /\ naps <= 1
  /\ (Asleep /\ unseen /\ Stale /\ recv_armed) => pipe > 0

\* The worker entered wait_for with a stale timeout and the byte of add is
\* waiting for the ISR.
C8_Witness ==
  /\ Asleep
  /\ unseen
  /\ Stale
  /\ naps = 1
  /\ WakePending

Count(seq, x) == Cardinality({i \in 1 .. Len(seq) : seq[i] = x})

\* C10: an invocation of the ISR routine leaves sigmask 0 and calls
\* signal_handler once for every bit that was set and for no other, in
\* increasing order; a signal that was sent any number of times since the
\* previous swap is delivered by exactly one call.
C10_IsrDeliversEachBitOnce ==
  last.op = "isr" =>
    /\ sigmask = 0
    /\ \A n \in Signums :
         Count(last.calls, n)
           = IF ShiftRight(last.mask, n) % 2 = 1 THEN 1 ELSE 0
    /\ \A i, j \in 1 .. Len(last.calls) :
         i < j => last.calls[i] < last.calls[j]
    /\ \A n \in Signums : last.sent[n] > 0 => Count(last.calls, n) = 1

\* The ISR routine delivered a signal that was sent twice before the swap.
C10_Witness ==
  /\ last.op = "isr"
  /\ \E n \in Signums : last.sent[n] >= 2 /\ Count(last.calls, n) = 1

\* C11: a signal(user1) that set its bit while the receive of the ISR is
\* pending on a started context thread is followed by an invocation of the
\* ISR routine that calls signal_handler(user1), and every invocation of the
\* routine calls signal_handler(user1) once if signal(user1) was called since
\* the previous swap and not at all otherwise.
C11_User1DeliveredOnce ==
  /\ [](last.op = "isr" =>
          Count(last.calls, user1) = IF last.sent[user1] > 0 THEN 1 ELSE 0)
  /\ (sent[user1] > 0 /\ recv_armed /\ state = STARTED)
       ~> (last.op = "isr" /\ Count(last.calls, user1) = 1)

Bit(mask, n) == ShiftRight(mask, n) % 2

\* C12: the first half of signal(signum) sets bit signum of sigmask and
\* changes no other bit and nothing else of the context or of the timer set;
\* the second half writes one byte to the write end if the socket pair
\* exists and changes nothing else.
C12_SignalSetsBitWritesByte ==
  [][/\ nsignals' # nsignals
          => /\ \E signum \in Signums :
                  \A n \in Signums :
                    Bit(sigmask', n)
                      = IF n = signum THEN 1 ELSE Bit(sigmask, n)
             /\ sigmask' < 2 ^ END
             /\ UNCHANGED <<events, eventq, free_ids, mtx_, pc, tmp, it,
                            sockets, pipe, state, stop_requested,
                            recv_armed, inflight, is_empty, wpc, started_,
                            closed>>
     /\ sig_intr' < sig_intr
          => /\ pipe' = IF sockets[2] = INVALID_SOCKET THEN pipe ELSE pipe + 1
             /\ UNCHANGED <<events, eventq, free_ids, mtx_, pc, tmp, it,
                            sockets, sigmask, state, stop_requested,
                            recv_armed, inflight, is_empty, wpc, started_,
                            closed>>]_vars

\* A single signal(terminate) was made on a context whose socket pair
\* exists: the bit is set and one byte waits on the read end.
C12_Witness ==
  /\ nsignals = 1
  /\ sig_intr = 0
  /\ sent[terminate] = 1
  /\ Bit(sigmask, terminate) = 1
  /\ sockets[2] # INVALID_SOCKET
  /\ pipe = 1

\* C13: when start() returns normally the worker has left PENDING and, the
\* service having started, the state is STARTED.
C13_StartReturnsStarted ==
  (last.op = "start" /\ last.val = "returned") => last.state = STARTED

SocketpairFailed ==
  wpc \in {"stop", "done"} /\ sockets[1] = INVALID_SOCKET

\* C15: if the socket pair cannot be created the worker never enters the
\* reactor loop and start() does not return normally.
C15_SocketpairFailureThrows ==
  SocketpairFailed =>
    /\ state # STARTED
    /\ hint = -1 /\ deadline = -1
    /\ ~started_

\* C16: on a context thread in state STARTED on which terminate was
\* signalled, the state eventually becomes STOPPED.
C16_TerminateReachesStopped ==
  (state = STARTED /\ Bit(sigmask, terminate) = 1) ~> (state = STOPPED)

\* A step in which the ISR routine runs.
IsrStep ==
  /\ wpc \in {"isr", "poll"}
  /\ wpc' \in {"service", "run"}
  /\ last'.op = "isr"

\* C17: an ISR routine that finds the terminate bit in the mask it swapped
\* out requests the stop of the scope, adds an armed timer that first expires
\* one second later and repeats every second and whose handler is the
\* escalation handler, and the receive is not spawned again; a routine that
\* does not find the bit adds no timer, requests no stop, and the receive is
\* spawned again unless a stop was requested before.
C17_TerminateInstallsEscalation ==
  [][IsrStep =>
       IF Bit(last'.mask, terminate) = 1
       THEN /\ stop_requested'
            /\ ~recv_armed'
            /\ \E tid \in 0 .. (Len(events') - 1) :
                 LET ref == [expires_at |-> now + Second, id |-> tid]
                 IN /\ events'[tid + 1]
                         = [handler |-> Escalation, start |-> now + Second,
                            period |-> Second, armed |-> TRUE]
                    /\ eventq' = Push(eventq, ref)
       ELSE /\ UNCHANGED <<events, eventq, free_ids, stop_requested>>
            /\ recv_armed' = ~stop_requested]_vars

\* The ISR routine found the terminate bit: the stop is requested, the
\* escalation timer is queued and the receive is not pending.
C17_Witness ==
  /\ last.op = "isr"
  /\ Bit(last.mask, terminate) = 1
  /\ stop_requested
  /\ ~recv_armed
  /\ \E i \in 1 .. Len(events) :
       events[i].handler = Escalation /\ events[i].period = Second

\* C18: while the scope is stopping and an operation of the service is
\* pending, the worker stays in the reactor loop and does not abort; every
\* resolve that fired the escalation timer leaves it armed, with its
\* handler, and queued for one second later; and the state goes from STARTED
\* to STOPPED only when no operation is pending and the worker has ended.
C18_DrainKeepsEscalating ==
  [][/\ (stop_requested /\ inflight > 0 /\ state = STARTED)
          => /\ wpc \notin {"stop", "done"}
             /\ pc' # "threw"
     /\ (wpc = "resolving" /\ last'.op = "resolve")
          => \A i \in 1 .. Len(tmp) :
               LET tid == tmp[i].id
               IN Event(tid).handler = Escalation
                    => /\ events'[tid + 1].handler = Escalation
                       /\ events'[tid + 1].armed
                       /\ \E r \in BagToSet(eventq') :
                            /\ r.id = tid
                            /\ r.expires_at = tmp[i].expires_at + Second
     /\ (state = STARTED /\ state' = STOPPED)
          => inflight = 0 /\ wpc' = "done"]_vars

\* C19: the destructor of a context thread that was started sets the
\* terminate bit, interrupts and returns only when the worker has ended; the
\* destructor of one that was never started returns at once and changes
\* nothing; and a destructor that was entered always returns.
C19_DestructorJoinsAndReturns ==
  /\ [][(dtor = "none" /\ dtor' # "none")
          => IF started_
             THEN Bit(sigmask', terminate) = 1 /\ dtor' = "signal"
             ELSE /\ dtor' = "returned"
                  /\ UNCHANGED <<sigmask, pipe, sig_intr, wpc, state>>]_vars
  /\ [][(dtor # "returned" /\ dtor' = "returned" /\ started_)
          => dtor = "join" /\ wpc = "done"]_vars
  /\ (dtor # "none") ~> (dtor = "returned")

\* C20: close is called on the write end at most once and never on
\* INVALID_SOCKET, and only by the stop() of the worker; when the worker has
\* ended the state is STOPPED, sockets[1] is INVALID_SOCKET and the write
\* end was closed exactly if the socket pair was created.
C20_WriteEndClosedOnce ==
  /\ Len(closed) <= 1
  /\ INVALID_SOCKET \notin Range(closed)
  /\ closed # <<>> => wpc = "done"
  /\ wpc = "done"
       => /\ state = STOPPED
          /\ sockets[2] = INVALID_SOCKET
          /\ closed = IF sockets[1] # INVALID_SOCKET
                      THEN <<"fd1">> ELSE <<>>

\* The worker left run(), stop() closed the write end, and the destructor
\* has signalled and joined after that.
C20_Witness ==
  /\ wpc = "done"
  /\ closed = <<"fd1">>
  /\ dtor = "returned"
  /\ started_

\* A step in which the receive of the ISR completes with an error.
IsrErrorStep ==
  /\ wpc = "poll"
  /\ recv_armed
  /\ last'.op = "isr_error"

\* C21: the routine passed to isr() runs only when isr() is installed or when
\* a pending receive on the dialog completes without error, once per such
\* step; the receive is spawned again exactly if the routine returned true
\* (no stop is requested); a receive that completes with an error spawns
\* nothing and calls no routine (the signal mask is not swapped); and once
\* no receive is pending the routine is not called again.
C21_IsrRunsOncePerReceive ==
  [][/\ IsrStep =>
          /\ wpc = "isr" \/ (recv_armed /\ pipe > 0)
          /\ recv_armed' = ~stop_requested'
     /\ IsrErrorStep =>
          /\ ~recv_armed'
          /\ UNCHANGED <<sigmask, sent, pipe, events, eventq, free_ids,
                         stop_requested>>
     /\ (wpc \notin {"unstarted", "thread", "isr"} /\ ~recv_armed) =>
          (~recv_armed' /\ ~IsrStep)]_vars

\* The receive of the ISR failed while a signal was waiting in the mask: the
\* chain has ended and the signal stays undelivered.
C21_Witness ==
  /\ last.op = "isr_error"
  /\ ~recv_armed
  /\ sigmask # 0
  /\ pipe > 0
  /\ wpc = "run"

\* The positions of the worker inside the loop of run().
InRun == wpc \in {"run", "resolving", "resolved", "poll"}

\* A step in which wait_for returns and reports no events.
NoEventStep ==
  /\ wpc = "poll"
  /\ wpc' # "poll"
  /\ inflight' = inflight
  /\ last'.op \notin {"isr", "isr_error"}

\* C22: run() leaves its loop only from a wait that reported no events while
\* the empty flag is set, and then no operation is pending in the scope; a
\* wait that reported events, or that returns while the flag is not set, is
\* followed by another resolve() and wait; a wait that reports no events
\* while the flag is set ends run().
C22_RunReturnsWhenEmptyAndIdle ==
  [][/\ (InRun /\ wpc' = "stop") =>
          (NoEventStep /\ is_empty /\ inflight = 0 /\ ~recv_armed)
     /\ (wpc = "poll" /\ wpc' # "poll") =>
          wpc' = IF NoEventStep /\ is_empty THEN "stop" ELSE "run"
     /\ (InRun /\ is_empty) => (inflight = 0 /\ ~recv_armed)]_vars

\* run() has returned on a context whose service had left an operation in
\* the scope: the ISR has ended and the operation has completed.
C22_Witness ==
  /\ wpc = "stop"
  /\ sockets[2] # INVALID_SOCKET
  /\ state = STARTED
  /\ is_empty
  /\ inflight = 0
  /\ ~recv_armed

\* Nothing is pending in the scope of the fixture's context.
Drained ==
  /\ ~recv_armed
  /\ \A s \in Svcs : svc[s].accepts = 0
  /\ \A i \in 1 .. Len(dialogs) : dialogs[i].ops = {}

\* C23: on a TCP service a step that adds a dialog is the completion of a
\* pending accept: it adds exactly one dialog, with a fresh read context, on
\* which the handler has been called, and it leaves exactly one accept
\* pending on the listener; a step in which a pending accept fails adds no
\* dialog and leaves no accept pending; only start() makes an accept pending
\* on a listener that has none; and while no connection was accepted, at
\* most DrainLimit wait_for calls report events after terminate.
C23_AcceptorRearmsOnSuccessOnly ==
  [][variant.proto = "tcp" =>
       /\ Len(dialogs') # Len(dialogs) =>
            /\ Len(dialogs') = Len(dialogs) + 1
            /\ LET d == dialogs'[Len(dialogs')]
               IN /\ svc[d.svc].accepts = 1
                  /\ svc'[d.svc].accepts = 1
                  /\ backlog[d.svc] # <<>>
                  /\ d.peer = Head(backlog[d.svc])
                  /\ backlog' = [backlog EXCEPT ![d.svc] = Tail(@)]
                  /\ d.buffer = <<>>
                  /\ d.inbox = <<>>
                  /\ d.ops = {"send"}
                  /\ d.out = [to |-> d.peer, len |-> 0]
       /\ \A s \in Svcs :
            /\ svc[s].accepts \in {0, 1}
            /\ svc'[s].accepts < svc[s].accepts =>
                 (svc'[s].accepts = 0 /\ UNCHANGED <<dialogs, backlog>>)
            /\ svc'[s].accepts > svc[s].accepts =>
                 (svc[s].ret = "none" /\ svc'[s].up)
       /\ (dialogs' = <<>>) => (polls' <= DrainLimit)]_vars

\* Both TCP services started, the accept of each failed before terminate was
\* signalled, and the one wait_for call that reported events after terminate
\* has drained the context.
C23_Witness ==
  /\ variant.proto = "tcp"
  /\ \A s \in Svcs : svc[s].up /\ svc[s].accepts = 0
  /\ dialogs = <<>>
  /\ polls = 1
  /\ Drained

C25_UdpStartReturnsError ==
  [][(variant.proto = "udp" /\ last'.op = "start") =>
       LET s == last'.svc
           st == last'.steps
           n == Len(st)
       IN /\ svc[s].ret = "none"
          /\ IF st[n] # "recv"
             THEN /\ st = SubSeq(InitSteps("udp"), 1, n)
                  /\ st[n] \in Failures("udp")
                  /\ svc'[s].ret = IF st[n] = "initialize"
                                   THEN "invalid_argument" ELSE "errno"
                  /\ svc'[s].sockfd = INVALID_SOCKET
                  /\ ~svc'[s].up
                  /\ UNCHANGED dialogs
             ELSE /\ st = InitSteps("udp") \o <<"store", "recv">>
                  /\ svc'[s].ret = "ok"
                  /\ svc'[s].sockfd = ListenFd(s)
                  /\ svc'[s].up
                  /\ dialogs' = Append(dialogs,
                                       [new_dialog(s, 0) EXCEPT
                                          !.ops = {"recv"}])]_vars

\* The start() of one UDP service has returned the error of bind and has
\* submitted nothing, after the start() of the other had returned success
\* and submitted its receive.
C25_Witness ==
  /\ variant.proto = "udp"
  /\ last.op = "start"
  /\ last.steps[Len(last.steps)] = "bind"
  /\ svc[last.svc].ret = "errno"
  /\ svc[last.svc].sockfd = INVALID_SOCKET
  /\ \E s \in Svcs : svc[s].ret = "ok" /\ svc[s].sockfd = ListenFd(s)
  /\ Len(dialogs) = 1
  /\ dialogs[1].ops = {"recv"}

\* C26: when a receive submitted on a connection of a TCP service completes,
\* the handler is called once: for length 0 and for an error with a null
\* read context and an empty buffer, for length n > 0 with the read context
\* of the connection and the first n bytes of its buffer, which are the n
\* bytes that arrived first; the step leaves no receive pending on the
\* connection, and after a null read context nothing at all is pending that
\* was not before; submit_recv with a null read context changes nothing.
C26_TcpReceiveResults ==
  [][variant.proto = "tcp" =>
       /\ last'.op = "service" =>
            LET i == last'.socket
                d == dialogs[i]
                d2 == dialogs'[i]
                n == last'.len
            IN /\ "recv" \in d.ops
               /\ n = 0 => (~last'.rctx /\ last'.buf = <<>>)
               /\ n < 0 => (~last'.rctx /\ last'.buf = <<>>)
               /\ n > 0 =>
                    /\ last'.rctx
                    /\ n <= Len(d.inbox)
                    /\ last'.buf = [j \in 1 .. n |-> d.inbox[j].data]
                    /\ last'.buf = SubSeq(d2.buffer, 1, n)
                    /\ d2.inbox = SubSeq(d.inbox, n + 1, Len(d.inbox))
               /\ "recv" \notin d2.ops
               /\ ~last'.rctx => d2.ops = d.ops \ {"recv"}
       /\ \A i \in 1 .. Len(dialogs) :
            submit_recv(dialogs[i], FALSE) = dialogs[i]]_vars

\* A receive on a connection has completed with one byte while the buffer of
\* the read context still held two bytes of an earlier receive: the handler
\* was called with the read context and the one byte, and echoes it.
C26_Witness ==
  /\ variant.proto = "tcp"
  /\ last.op = "service"
  /\ last.len = 1
  /\ last.rctx
  /\ Len(last.buf) = 1
  /\ Len(dialogs[last.socket].buffer) = 2
  /\ dialogs[last.socket].ops = {"send"}

\* The calls signal_handler(terminate) of TCP service s makes when the
\* stored descriptor is fd.
TerminateCalls(s, fd) ==
  (IF variant.has_stop
   THEN <<[svc |-> s, call |-> "stop", fd |-> INVALID_SOCKET]>>
   ELSE <<>>)
    \o (IF fd # INVALID_SOCKET
        THEN <<[svc |-> s, call |-> "shutdown", fd |-> fd]>>
        ELSE <<>>)

\* C27: when the ISR delivers terminate to the TCP services, each calls the
\* stop() of its handler first if the handler defines it, then stores
\* INVALID_SOCKET and calls shutdown on the old descriptor exactly if that
\* was valid; a delivery without terminate changes no service and makes no
\* call; and an accept of a listener that was shut down adds no dialog and
\* is not followed by another accept.
C27_TerminateStopsAcceptor ==
  [][variant.proto = "tcp" =>
       /\ last'.op = "isr" =>
            IF \E k \in 1 .. Len(last'.calls) : last'.calls[k] = terminate
            THEN /\ trace' = trace \o TerminateCalls(1, svc[1].sockfd)
                                   \o TerminateCalls(2, svc[2].sockfd)
                 /\ \A s \in Svcs :
                      /\ svc'[s].sockfd = INVALID_SOCKET
                      /\ svc'[s].shut = (svc[s].shut
                                           \/ svc[s].sockfd # INVALID_SOCKET)
                      /\ svc'[s].accepts = svc[s].accepts
            ELSE UNCHANGED <<svc, trace>>
       /\ \A s \in Svcs :
            svc[s].shut =>
              /\ svc'[s].accepts <= svc[s].accepts
              /\ \A i \in 1 .. Len(dialogs') :
                   dialogs'[i].svc = s => i <= Len(dialogs)]_vars

\* terminate was delivered to a started and to a not started TCP service
\* whose handler defines stop(): stop() ran on both, shutdown was called on
\* the one stored descriptor, and the accept that was pending has failed in
\* the wait_for call after that of the ISR.
C27_Witness ==
  /\ variant.proto = "tcp"
  /\ trace = <<[svc |-> 1, call |-> "stop", fd |-> INVALID_SOCKET],
               [svc |-> 1, call |-> "shutdown", fd |-> ListenFd(1)],
               [svc |-> 2, call |-> "stop", fd |-> INVALID_SOCKET]>>
  /\ svc[1].shut
  /\ svc[1].sockfd = INVALID_SOCKET
  /\ svc[1].accepts = 0
  /\ polls = 2
  /\ Drained

\* Service s is running: its start() found no error and the read side of
\* the socket it created was not shut down since.
Running(s) == svc[s].up /\ ~svc[s].shut

EchoedInOrder ==
  \A c \in Clients :
    /\ Len(clients[c].echoed) <= clients[c].sent
    /\ clients[c].echoed =
         [k \in 1 .. Len(clients[c].echoed) |-> Byte(c, k)]

\* A step submits a receive on a dialog only as a send on that dialog
\* completes, the dialog of a new connection has the send of the handler's
\* first call pending and no receive, and a connection of a TCP service
\* whose handler was called with length 0 or an error, or whose peer has
\* closed and which has nothing pending, has nothing pending afterwards.
EchoStep ==
  /\ \A i \in 1 .. Len(dialogs') :
       /\ ~({"recv", "send"} \subseteq dialogs'[i].ops)
       /\ i > Len(dialogs) => dialogs'[i].ops = {"send"}
       /\ (i <= Len(dialogs) /\ "recv" \in dialogs'[i].ops
             /\ "recv" \notin dialogs[i].ops) =>
            ("send" \in dialogs[i].ops /\ "send" \notin dialogs'[i].ops)
  /\ variant.proto = "tcp" =>
       /\ (last'.op = "service" /\ last'.len <= 0) =>
            /\ dialogs[last'.socket].eof
            /\ dialogs'[last'.socket].ops = {}
       /\ \A i \in 1 .. Len(dialogs) :
            (dialogs[i].eof /\ dialogs[i].ops = {}) => dialogs'[i].ops = {}

\* Every byte sent has come back, except to a client that closed.
AllEchoed ==
  \A c \in Clients :
    clients[c].stat = "closed" \/ Len(clients[c].echoed) = clients[c].sent

SwapBlocked(t) ==
  /\ swappers[t].pc = "lock"
  /\ Mtx(swappers[t].first) # Free

\* The threads calling swap hold the mutexes they count as held, a thread
\* that blocks on a mutex holds none, and no thread is blocked on a mutex
\* whose owner is blocked too.
SwapNoDeadlock ==
  \A t \in Swappers :
    /\ \A o \in swappers[t].held : Mtx(o) = Owner(t)
    /\ swappers[t].pc \in {"locked", "unlock"} => swappers[t].held = Objects
    /\ swappers[t].pc = "lock" => swappers[t].held = {}
    /\ SwapBlocked(t) =>
         \A u \in Swappers :
           Mtx(swappers[t].first) = Owner(u) => ~SwapBlocked(u)

\* The first timer set after the step, as a record.
Timers0Next ==
  [alive |-> TRUE, events |-> events', eventq |-> eventq',
   free_ids |-> free_ids', sockets |-> sockets', pipe |-> pipe',
   mtx_ |-> mtx_']

\* The fields swap exchanges.
Swapped(st) ==
  [events |-> st.events, eventq |-> st.eventq, free_ids |-> st.free_ids,
   sockets |-> st.sockets]

\* A step of swap on two distinct sets that exchanges is made by a thread
\* that holds both mutexes and keeps them, and afterwards each set has the
\* events, queue, free ids and socket pair the other had; swap(a, a) changes
\* neither set nor a mutex; the move constructor gives the new set what the
\* source had and leaves the source as a default-constructed set, both
\* mutexes free; and no step of swap or of the move constructor invokes a
\* handler or touches the resolve() in progress.
SwapStep ==
  /\ (last'.op = "swap" /\ last'.lhs # last'.rhs) =>
       /\ mtx_ = Owner(last'.thread)
       /\ timers1.mtx_ = Owner(last'.thread)
       /\ mtx_' = mtx_
       /\ timers1'.mtx_ = timers1.mtx_
       /\ Swapped(Timers0Next) = Swapped(timers1)
       /\ Swapped(timers1') = Swapped(Timers0)
  /\ (last'.op = "swap" /\ last'.lhs = last'.rhs) =>
       /\ Timers0Next = Timers0
       /\ timers1' = timers1
  /\ last'.op = "move" =>
       /\ Swapped(timers1') = Swapped(Timers0)
       /\ Swapped(Timers0Next) = Swapped(Fresh)
       /\ timers1'.alive
       /\ timers1'.mtx_ = Free
       /\ mtx_' = Free
  /\ (swappers' # swappers \/ last'.op \in {"swap", "move"}) =>
       UNCHANGED <<fires, cancelled, pc, tmp, nadds>>

\* C30: swap(a, b) on two distinct timer sets exchanges events, queue, free
\* ids and interrupt sockets while the calling thread holds both mutexes,
\* which it takes without ever blocking while it holds one, so that threads
\* running swap(a, b) and swap(b, a) never wait for each other; swap(a, a)
\* changes nothing; move construction and move assignment invoke no handler
\* and leave valid timer sets behind.
C30_SwapExchangesUnderBothLocks ==
  /\ []SwapNoDeadlock
  /\ [][SwapStep]_vars

\* Thread 1 runs swap(timers0, timers1) and has exchanged the sets while
\* thread 2, in swap(timers1, timers0), gave up the mutex it held when its
\* try_lock failed and now blocks holding none.  The second set had been
\* move-constructed from the first, which so has its socket pair back; a
\* timer was added to each set after the construction, and the one of the
\* first set has fired.
C30_Witness ==
  /\ \A t \in Swappers : swappers[t].calls = MaxSwaps
  /\ swappers[1].pc = "unlock"
  /\ swappers[2].pc = "lock"
  /\ swappers[1].lhs = 0
  /\ swappers[2].lhs = 1
  /\ swappers[2].first = 0
  /\ last.op = "swap"
  /\ last.thread = 1
  /\ sockets = <<"fd0", "fd1">>
  /\ timers1.sockets = <<INVALID_SOCKET, INVALID_SOCKET>>
  /\ Len(timers1.events) = 1
  /\ fires[1] = 1

\* The number of event_refs for tid in eventq and in the working list.
RefCount(tid) ==
  BagCardinality([r \in {q \in BagToSet(eventq) : q.id = tid} |->
                    CopiesIn(r, eventq)])
    + Cardinality({i \in 1 .. Len(tmp) : tmp[i].id = tid})

\* C31: whenever no resolve is past its dequeue phase, every id below
\* events.size() is accounted for exactly once, in free_ids or by one
\* event_ref in eventq or in the working list; every id in eventq and in
\* free_ids is below events.size(); and events never shrinks.
C31_IdsAccountedOnce ==
  /\ [](pc \in {"idle", "dequeue"} =>
          /\ \A tid \in Ids : Count(free_ids, tid) + RefCount(tid) = 1
          /\ \A i \in 1 .. Len(free_ids) : free_ids[i] \in Ids
          /\ \A r \in BagToSet(eventq) : r.id \in Ids)
  /\ [][Len(events') >= Len(events)]_vars

\* The step of resolve() that runs dequeue_timers.
DequeueStep == pc = "dequeue" /\ pc' # "dequeue"

\* The entries a step takes out of eventq.
Popped == eventq (-) eventq'

\* What the dequeue phase does whatever the expiry of a dropped entry: the
\* entries taken were at the top of the heap; the armed ones were due and
\* make up the working list; the unarmed ones are dropped, their handlers
\* cleared and their ids pushed onto free_ids; nothing else changes; and the
\* phase stops with the heap empty or an armed entry that is not due on top.
DequeueTakesTop ==
  /\ eventq' \sqsubseteq eventq
  /\ \A r \in BagToSet(Popped), q \in BagToSet(eventq') :
       r.expires_at <= q.expires_at
  /\ \A r \in BagToSet(Popped) :
       IF Event(r.id).armed
       THEN r.expires_at <= now /\ r \in Range(tmp')
       ELSE /\ r \notin Range(tmp')
            /\ events'[r.id + 1].handler = nullptr
            /\ r.id \in Range(SubSeq(free_ids', Len(free_ids) + 1,
                                     Len(free_ids')))
  /\ \A i \in 1 .. Len(tmp') :
       tmp'[i] \in BagToSet(Popped) /\ Event(tmp'[i].id).armed
  /\ Len(tmp') + Len(free_ids') - Len(free_ids) = BagCardinality(Popped)
  /\ SubSeq(free_ids', 1, Len(free_ids)) = free_ids
  /\ \A tid \in Ids :
       /\ events'[tid + 1].armed = Event(tid).armed
       /\ events'[tid + 1].handler \in {Event(tid).handler, nullptr}
  /\ (eventq' # EmptyBag) =>
       \E n \in Tops(eventq') : Event(n.id).armed /\ now < n.expires_at

\* C32 (as claimed): the dequeue phase takes entries from the heap top, and
\* exactly those with expires_at <= now, dropping the unarmed ones among them
\* and stopping at the first armed entry that is not due.
C32_DequeueTakesOnlyDue ==
  [][DequeueStep =>
       /\ DequeueTakesTop
       /\ \A r \in BagToSet(Popped) : r.expires_at <= now]_vars

\* C32 (amended): the dequeue phase takes entries from the heap top until
\* the heap is empty or its top is an armed entry that is not due: an armed
\* entry taken was due and goes to the working list, an unarmed entry is
\* dropped whether it was due or not (handler cleared, id pushed onto
\* free_ids); an unarmed entry that is not at the top stays queued.
C32_DequeueTakesTopUntilArmedFuture ==
  [][DequeueStep => DequeueTakesTop]_vars

\* The dequeue phase has dropped the entry of a removed timer that was not
\* due, and stopped at an armed entry that is not due.
C32_Witness ==
  /\ pc = "relock"
  /\ tmp = <<>>
  /\ Len(free_ids) = 1
  /\ Event(free_ids[1]).start > now
  /\ Event(free_ids[1]).handler = nullptr
  /\ \E n \in BagToSet(eventq) : Event(n.id).armed /\ now < n.expires_at

\* The one-shot timers whose handler is still installed.
OneShots == {tid \in Ids : Event(tid).period = 0 /\ Event(tid).handler # nullptr}

\* C33: the handler of a one-shot timer is invoked at most once; when it has
\* returned, the predicate of the fire phase clears armed; and when the
\* resolve call that invoked it has returned, the entry is not in the heap,
\* the handler is cleared and the id is in free_ids or in use again.
C33_OneShotFiresOnceAndIsReclaimed ==
  /\ [](\A tid \in OneShots : fires[Event(tid).handler] <= 1)
  /\ [][(pc = "post" /\ pc' # "post" /\ Event(tmp[it].id).period = 0)
          => ~events'[tmp[it].id + 1].armed]_vars
  /\ [](pc = "idle" => \A tid \in OneShots : fires[Event(tid).handler] = 0)

\* The entries of the working list the fire phase has kept so far: they
\* were armed when the predicate of remove_if returned.
Kept == SubSeq(tmp, 1, IF result = 0 THEN it - 1 ELSE result - 1)

\* C34: within one resolve call the handler of a timer is not invoked for an
\* entry when the call has already kept an entry of that timer; the third
\* phase adds to the heap only entries of the working list, each advanced by
\* one period of its timer; and a resolve call that leaves an entry in the
\* heap that is due returns 0.
C34_PeriodicFiresOncePerResolve ==
  /\ [][(pc = "fire" /\ pc' = "handler") =>
          \A j \in 1 .. Len(Kept) : Kept[j].id # tmp[it].id]_vars
  /\ [][last'.op = "resolve" =>
          /\ \A r \in BagToSet(eventq' (-) eventq) :
               \E j \in 1 .. Len(tmp) :
                 /\ tmp[j].id = r.id
                 /\ r.expires_at = tmp[j].expires_at + Event(r.id).period
          /\ (\E r \in BagToSet(eventq') : r.expires_at <= now)
               => last'.val = 0]_vars

\* C35: the state of the context never moves back (PENDING, STARTED,
\* STOPPED), and whenever it is STOPPED the worker has left run() and
\* stop() has closed the write end of the socket pair.
C35_StateForwardStoppedIsFinal ==
  /\ [][state' >= state]_vars
  /\ [](state = STOPPED => (wpc = "done" /\ sockets[2] = INVALID_SOCKET))

\* C36: when the ISR routine calls service.signal_handler, the worker has
\* called service.start before: the routine delivers signals only when it
\* runs from the poller inside run(), never when isr() installs it.
C36_NoSignalHandlerBeforeStart ==
  [][(last'.op = "isr" /\ last'.calls # <<>>) => wpc = "poll"]_vars

\* The timers that repeat every second: the escalation timers.
Escalations == {tid \in Ids : Event(tid).period = Second}

\* C37: the ISR routine runs when isr() installs it or when the receive it
\* spawned completes; a routine that finds the terminate bit finds no
\* escalation timer installed, so at most one is ever installed; and once
\* the stop is requested and no receive is pending, the routine does not
\* run again and no bit of sigmask is ever cleared.
C37_OneEscalationTimer ==
  /\ [](Cardinality(Escalations) <= 1)
  /\ [][/\ IsrStep => (wpc = "isr" \/ recv_armed)
        /\ (IsrStep /\ Bit(last'.mask, terminate) = 1) =>
             (Escalations = {} /\ ~recv_armed')
        /\ (stop_requested /\ ~recv_armed /\ wpc # "isr") =>
             /\ ~IsrStep
             /\ \A n \in Signums : Bit(sigmask', n) >= Bit(sigmask, n)]_vars

\* terminate was signalled a second time after the routine had handled the
\* first: the bit stays in sigmask, no receive is pending, one escalation
\* timer is installed and the worker is in the reactor loop.
C37_Witness ==
  /\ nsignals = MaxSignals
  /\ sig_intr = 0
  /\ Bit(sigmask, terminate) = 1
  /\ sent[terminate] = 1
  /\ stop_requested
  /\ ~recv_armed
  /\ Cardinality(Escalations) = 1
  /\ wpc = "poll"

\* C38: every sendmsg of an interrupt() on a thread other than the worker is
\* made on the invalid descriptor or on a descriptor that stop() has not
\* closed.
C38_NoSendAfterClose ==
  [][last'.op = "sendmsg" =>
       (last'.fd = INVALID_SOCKET \/ ~last'.closed)]_vars

\* The shutdown calls service s has made so far.
Shutdowns(s) ==
  {k \in 1 .. Len(trace) : trace[k].svc = s /\ trace[k].call = "shutdown"}

\* C39: whatever signals were delivered, a TCP or UDP service has called
\* shutdown at most once, and never with the invalid descriptor.
C39_ShutdownAtMostOnceOnValid ==
  \A s \in 1 .. NumServices :
    /\ Cardinality(Shutdowns(s)) <= 1
    /\ \A k \in Shutdowns(s) : trace[k].fd # INVALID_SOCKET

\* C40: to_millis returns -1 for a negative count and else the whole
\* milliseconds of the count, the microseconds below one millisecond dropped;
\* and every count run() passes to it is at least -1.
C40_ToMillisTruncates ==
  last.op = "to_millis" =>
    /\ last.arg.neg =>
         /\ last.val = -1
         /\ (last.arg.hi * Limb + last.arg.lo) * MicrosPerMilli
              + last.arg.us = 1
    /\ ~last.arg.neg =>
         /\ last.arg.hi < Limb \div 2
         /\ last.val = last.arg.hi * Limb + last.arg.lo

====
